---- MODULE Spec2Model ----
(***************************************************************************)
(* Strex Excel Editor: the session state of App.tsx (the running app, with *)
(* ExcelGrid, StatusBar and SearchBar) and of the useExcelData hook, the   *)
(* loaders, the modification ledger, the view projector and the exporters. *)
(*                                                                         *)
(* JavaScript strings are sequences of one-character strings, so that key  *)
(* formatting, splitting, trimming and type inference are computed and not *)
(* assumed.  JavaScript arrays are 0-based; At(a, i) reads a[i].           *)
(***************************************************************************)
EXTENDS Integers, Sequences, FiniteSets, TLC

(***************************************************************************)
(* Bounds of the model                                                     *)
(***************************************************************************)
\* SpecLoader: decoded arrays of at most MaxJsonRows rows (header included)
MaxJsonRows == 3
\* SpecLoader: each decoded row has at most MaxRowLen cells
MaxRowLen == 2

(***************************************************************************)
(* JavaScript values                                                       *)
(***************************************************************************)
Null == [null |-> TRUE]

At(a, i) == a[i + 1]

Idx0(a) == 0 .. (Len(a) - 1)

\* the strings the model uses
S_empty == << >>
S_undefined == <<"u", "n", "d", "e", "f", "i", "n", "e", "d">>
S_Name == <<"N", "a", "m", "e">>
S_Age == <<"A", "g", "e">>
S_Alice == <<"A", "l", "i", "c", "e">>
S_Bob == <<"B", "o", "b">>
S_30 == <<"3", "0">>
S_25 == <<"2", "5">>
S_TRUE == <<"T", "R", "U", "E">>
S_ali == <<"a", "l", "i">>
S_bob == <<"b", "o", "b">>
S_x_padded == <<" ", "x", " ">>
S_Column_ == <<"C", "o", "l", "u", "m", "n", " ">>

DigitChars == <<"0", "1", "2", "3", "4", "5", "6", "7", "8", "9">>

UpperChars == <<"A", "B", "C", "D", "E", "F", "G", "H", "I", "J", "K", "L", "M",
                "N", "O", "P", "Q", "R", "S", "T", "U", "V", "W", "X", "Y", "Z">>

LowerChars == <<"a", "b", "c", "d", "e", "f", "g", "h", "i", "j", "k", "l", "m",
                "n", "o", "p", "q", "r", "s", "t", "u", "v", "w", "x", "y", "z">>

IsDigit(c) == \E i \in DOMAIN DigitChars : DigitChars[i] = c

DigitVal(c) == (CHOOSE i \in DOMAIN DigitChars : DigitChars[i] = c) - 1

\* String(n) for a non-negative integer n
RECURSIVE NumToString(_)
NumToString(n) ==
    IF n < 10 THEN <<DigitChars[n + 1]>>
    ELSE NumToString(n \div 10) \o <<DigitChars[(n % 10) + 1]>>

\* c.toLowerCase() for one character
LowerChar(c) ==
    IF \E i \in DOMAIN UpperChars : UpperChars[i] = c
    THEN LowerChars[CHOOSE i \in DOMAIN UpperChars : UpperChars[i] = c]
    ELSE c

\* s.toLowerCase()
toLowerCase(s) == [i \in DOMAIN s |-> LowerChar(s[i])]

\* s.includes(t)
includes(s, t) ==
    \E k \in 0 .. (Len(s) - Len(t)) :
        \A i \in 1 .. Len(t) : s[k + i] = t[i]

\* s.trim()
RECURSIVE trimStart(_)
trimStart(s) ==
    IF s # << >> /\ Head(s) = " " THEN trimStart(Tail(s)) ELSE s

RECURSIVE trimEnd(_)
trimEnd(s) ==
    IF s # << >> /\ s[Len(s)] = " " THEN trimEnd(SubSeq(s, 1, Len(s) - 1)) ELSE s

trim(s) == trimEnd(trimStart(s))

\* s.split(sep) for a one-character separator: the array of the pieces
RECURSIVE split(_, _)
split(s, sep) ==
    IF \E i \in DOMAIN s : s[i] = sep
    THEN LET i == CHOOSE j \in DOMAIN s : s[j] = sep /\ \A k \in 1 .. (j - 1) : s[k] # sep
         IN  <<SubSeq(s, 1, i - 1)>> \o split(SubSeq(s, i + 1, Len(s)), sep)
    ELSE <<s>>

\* the value of a string of digits
RECURSIVE DigitsValue(_)
DigitsValue(s) ==
    IF s = << >> THEN 0
    ELSE 10 * DigitsValue(SubSeq(s, 1, Len(s) - 1)) + DigitVal(s[Len(s)])

\* the longest prefix of s made of digits
RECURSIVE DigitPrefix(_)
DigitPrefix(s) ==
    IF s # << >> /\ IsDigit(Head(s)) THEN <<Head(s)>> \o DigitPrefix(Tail(s)) ELSE << >>

\* parseInt(s): leading blanks and a sign are skipped, then the digit prefix is
\* read; NaN when there is none.  undef marks parseInt(undefined).
parseInt(s, undef) ==
    IF undef THEN [nan |-> TRUE, n |-> 0]
    ELSE LET t == trimStart(s)
             neg == t # << >> /\ Head(t) = "-"
             u == IF t # << >> /\ Head(t) \in {"-", "+"} THEN Tail(t) ELSE t
             d == DigitPrefix(u)
         IN  IF d = << >> THEN [nan |-> TRUE, n |-> 0]
             ELSE [nan |-> FALSE, n |-> IF neg THEN 0 - DigitsValue(d) ELSE DigitsValue(d)]

(***************************************************************************)
(* Dataset Loader / Normalizer                                             *)
(***************************************************************************)
Max(S) == CHOOSE m \in S : \A x \in S : x <= m

\* a row left as it was decoded
PadRow_none(row, w) == row

\* a row padded with '' up to length w (a longer row is kept whole)
PadRow(row, w) ==
    [i \in 1 .. Max({Len(row), w}) |-> IF i <= Len(row) THEN row[i] ELSE S_empty]

\* a label numbered from 0
SynthesizedHeader_from0(i) == S_Column_ \o NumToString(i - 1)

\* `Column ${headers.length + 1}`, pushed as the header of position i (1-based)
SynthesizedHeader(i) == S_Column_ \o NumToString(i)

\* useExcelData.loadExcelFile, from the decoded array to the dataset it stores:
\* row 0 is the header row, maxCols the longest of header and data rows, short
\* rows get '' and missing headers get `Column ${headers.length + 1}`
loadExcelFile_dataset(jsonData, filename) ==
    LET headers == At(jsonData, 0)
        data == Tail(jsonData)
        maxCols == Max({Len(headers)} \cup {Len(data[r]) : r \in DOMAIN data})
        normalizedData == [r \in DOMAIN data |-> PadRow(data[r], maxCols)]
        paddedHeaders ==
            [i \in 1 .. maxCols |->
                IF i <= Len(headers) THEN headers[i] ELSE SynthesizedHeader(i)]
    IN  [headers |-> paddedHeaders, data |-> normalizedData, filename |-> filename]

\* the cell a loop `for (i = 0; i < maxCols; i++)` of handleFileLoad reads:
\* row[i] when defined, else ''
CellOr(row, i) == IF i <= Len(row) THEN row[i] ELSE S_empty

\* row.some(cell => cell !== '' && cell !== null && cell !== undefined)
NotCompletelyEmpty(row) == \E i \in DOMAIN row : row[i] # S_empty

\* App.handleFileLoad, from the decoded array and the worksheet range to the
\* dataset it stores: maxCols is the width of the range, missing headers stay
\* '', rows are cut or padded to maxCols and completely empty rows are dropped.
\* formatting.worksheet keeps the sheet as it was read, row 0 the header row.
handleFileLoad_dataset(jsonData, maxCols, filename) ==
    LET rawHeaders == At(jsonData, 0)
        headers == [i \in 1 .. maxCols |-> CellOr(rawHeaders, i)]
        processed == [r \in DOMAIN Tail(jsonData) |->
                        [i \in 1 .. maxCols |-> CellOr(Tail(jsonData)[r], i)]]
        data == SelectSeq(processed, NotCompletelyEmpty)
    IN  [headers |-> headers, data |-> data, filename |-> filename,
         formatting |->
            [worksheet |-> [r \in DOMAIN jsonData |->
                              [i \in 1 .. maxCols |-> CellOr(jsonData[r], i)]]]]

\* what a file decodes to: XLSX.read + sheet_to_json (jsonData), the width of
\* the worksheet range (cols) and the file's name
File(name, jsonData, cols) == [name |-> name, jsonData |-> jsonData, cols |-> cols]

\* the files of the session specification
FileNameAge ==
    File("people.xlsx", <<<<S_Name, S_Age>>, <<S_Alice, S_30>>, <<S_Bob>>>>, 2)

FileMixed ==
    File("mixed.xlsx",
         <<<<S_Name, S_Age>>, <<S_Bob, S_x_padded>>, <<S_empty, S_empty>>,
           <<S_undefined, S_30>>, <<S_Alice, S_TRUE>>>>, 2)

FileEmpty == File("empty.xlsx", << >>, 1)

Files == {FileNameAge, FileMixed, FileEmpty}

\* the decoded arrays of the loader specification: every array of at most
\* MaxJsonRows rows of at most MaxRowLen cells
LoaderCells == {S_empty, S_Bob}

RowsUpTo(n) == UNION {[1 .. k -> LoaderCells] : k \in 0 .. n}

ArraysUpTo(m, n) == UNION {[1 .. k -> RowsUpTo(n)] : k \in 0 .. m}

\* the worksheet range is at least as wide as the longest decoded row
LoaderFiles ==
    {f \in {File("any.xlsx", a, c) :
                a \in ArraysUpTo(MaxJsonRows, MaxRowLen), c \in 1 .. MaxRowLen} :
        \A r \in DOMAIN f.jsonData : Len(f.jsonData[r]) <= f.cols}
    \cup Files

EmptyDocumentHook == "The Excel file appears to be empty"
EmptyDocumentApp == "Failed to load file: Excel file appears to be empty"

\* at most MaxPending loads of the hook are in flight at once
MaxPending == 1

\* a page size small enough for the session's files to fill several pages
SmallPage == 2

(***************************************************************************)
(* State                                                                   *)
(***************************************************************************)
VARIABLES
    impl,           \* which session implementation runs: "App" or "useExcelData"
    excelData,      \* the dataset, or Null
    modifiedCells,  \* the ledger: key -> edited value
    filteredData,   \* useExcelData: [rows |-> the rows shown, edits written in], or Null
    searchText,     \* App: the applied search text
    currentPage,    \* App: the page index
    settings,       \* App: rowsPerPage, lockedColumns, columnsLocked, autoSaveInterval
    loading,        \* the loading flag
    error,          \* the error message, or Null
    pending,        \* the files whose load is in flight (awaiting the decode)
    out,            \* what the last step returned or wrote: a result, an export
    op,             \* history: the operation of the last step
    edited,         \* history: ledger key -> the dataset cell <<row, col>> the
                    \* user was editing when the entry was last set
    cleared,        \* history: how many ledger entries the last step dropped
    loaded,         \* history: [file |-> the file the dataset was loaded from], or Null
    storage,        \* localStorage: the items of the app's keys, Null where none
    cache,          \* useCache: per namespace, the entries in the order of the Map
    now,            \* Date.now(), in milliseconds
    timers          \* the timers set and not cleared: autosave is the interval
                    \* of useAutoSave, [due |-> when it fires next, since |->
                    \* history: when the ledger last became non-empty], Null
                    \* where the timing of the hook is not followed; searchBar
                    \* is the SearchBar's state, [inputValue, timeouts |-> the
                    \* debounce timers pending, each with the inputValue and
                    \* searchText its callback closes over, changes |->
                    \* history: how often the input changed], Null where the
                    \* search bar is not followed

vars == <<impl, excelData, modifiedCells, filteredData, searchText, currentPage,
          settings, loading, error, pending, out, op, edited, cleared, loaded,
          storage, cache, now, timers>>

EmptyCells == [k \in {} |-> << >>]

NoOut == [kind |-> "none"]

\* the JavaScript value undefined where a cell is read (a hole of an array)
Undefined == <<"<undefined>">>

\* String(v) of a cell value
String(v) == IF v = Undefined THEN S_undefined ELSE v

DefaultRowsPerPage == 30
DefaultLockedColumns == 3
DefaultAutoSaveInterval == 5

DefaultSettings ==
    [rowsPerPage |-> DefaultRowsPerPage, lockedColumns |-> DefaultLockedColumns,
     columnsLocked |-> TRUE, autoSaveInterval |-> DefaultAutoSaveInterval]

\* what OptionsPanel.handleSave can pass to handleSettingsUpdate
SettingsOptions ==
    {[rowsPerPage |-> r, lockedColumns |-> l[1], columnsLocked |-> l[2],
      autoSaveInterval |-> DefaultAutoSaveInterval] :
        r \in {SmallPage, DefaultRowsPerPage},
        l \in {<<DefaultLockedColumns, TRUE>>, <<1, TRUE>>}}

SearchTexts == {S_empty, S_ali, S_bob}

NoTimers == [autosave |-> Null, searchBar |-> Null]

\* useAutoSave: the period of the interval, in milliseconds
intervalMs(intervalMinutes) == intervalMinutes * 60 * 1000

\* useAutoSave, the effect of the interval: the ledger is a new object, so
\* saveToLocalStorage is a new callback and the effect runs again: its
\* cleanup clears the interval and setInterval starts one at time t
SetInterval(tm, t, intervalMinutes, before) ==
    [tm EXCEPT !.autosave =
        [due |-> t + intervalMs(intervalMinutes),
         since |-> IF before = EmptyCells THEN t ELSE @.since]]

\* the timers after a render in which the ledger state was set
AfterLedgerSet(tm, t, intervalMinutes, before) ==
    IF tm.autosave = Null THEN tm ELSE SetInterval(tm, t, intervalMinutes, before)

\* what the user types into a cell
EditValues == {S_25, S_TRUE}

\* the <<row, col>> useExcelData.updateCell is called with: a cell of the
\* dataset, a column past the end of a row, a row past the end of the data
UpdateTargets == {<<1, 1>>, <<0, 3>>, <<7, 0>>}

\* the session as one value, for the operators that read it
Session ==
    [impl |-> impl, excelData |-> excelData, modifiedCells |-> modifiedCells,
     filteredData |-> filteredData, searchText |-> searchText,
     currentPage |-> currentPage, settings |-> settings]

(***************************************************************************)
(* Modification Ledger                                                     *)
(***************************************************************************)
\* {...prev, [key]: value}
Put(prev, key, value) ==
    [k \in DOMAIN prev \cup {key} |-> IF k = key THEN value ELSE prev[k]]

\* a ledger left as it was
ClearedCells_kept(prev) == prev

\* setModifiedCells({}) of a load, of resetData and of
\* handleLoadNewFileConfirmed: the ledger after the call
ClearedCells(prev) == EmptyCells

\* `${row},${col}`
PositionKey(row, col) == NumToString(row) \o <<",">> \o NumToString(col)

\* `${recordId}|${col}`
RecordKey(recordId, col) == String(recordId) \o <<"|">> \o NumToString(col)

\* a value handed to App.handleCellUpdate as rowData: the grid hands a row
\* number (ExcelGrid's onCellUpdate(row, col, value)), the handler's signature
\* names an array
NumberArg(n) == [t |-> "number", n |-> n]

\* !rowData || rowData.length === 0
NoRowData(rowData) ==
    IF rowData.t = "number" THEN rowData.n = 0 ELSE Len(rowData.a) = 0

\* rowData[0]: an element of an array, undefined of a number
FirstOf(rowData) ==
    IF rowData.t = "number" THEN Undefined ELSE At(rowData.a, 0)

\* App.handleCellUpdate: the ledger after the call
handleCellUpdate(prev, rowData, col, value) ==
    IF NoRowData(rowData) THEN prev
    ELSE Put(prev, RecordKey(FirstOf(rowData), col), value)

\* useExcelData.updateCell: the ledger after the call
updateCell_cells(prev, row, col, value) == Put(prev, PositionKey(row, col), value)

\* useExcelData.updateCell: filteredData after the call; an existing row is
\* copied and gets the value at col, a col past its end leaves holes
updateCell_filtered(prev, row, col, value) ==
    IF prev = Null THEN prev
    ELSE IF row >= Len(prev.rows) THEN prev
    ELSE [rows |-> [prev.rows EXCEPT ![row + 1] =
            [i \in 1 .. Max({Len(@), col + 1}) |->
                IF i = col + 1 THEN value
                ELSE IF i <= Len(@) THEN @[i] ELSE Undefined]]]

\* updateCell without the copy of the row: the write lands in the row array
\* that excelData.data shares with filteredData
updateCell_dataset_shared(ed, row, col, value) ==
    IF ed = Null \/ row >= Len(ed.data) THEN ed
    ELSE [ed EXCEPT !.data = updateCell_filtered([rows |-> ed.data], row, col, value).rows]

\* useExcelData.updateCell: the dataset after the call.  filteredData shares
\* its row arrays with excelData.data; the row is copied before the write, so
\* the dataset keeps its cells
updateCell_dataset(ed, row, col, value) == ed

(***************************************************************************)
(* View Projector: App.displayData and ExcelGrid                           *)
(***************************************************************************)
\* String(row[c] || '').toLowerCase().includes(searchText.toLowerCase())
ColumnMatches(row, c, text) ==
    LET cell == IF c < Len(row) /\ At(row, c) # Undefined THEN At(row, c) ELSE S_empty
    IN  includes(toLowerCase(cell), toLowerCase(text))

\* a filter callback that searches every column of the row
RowRetained_anyColumn(row, index, text) ==
    \/ index = 0
    \/ \E c \in 0 .. Len(row) - 1 : ColumnMatches(row, c, text)

\* the filter callback of displayData
RowRetained(row, index, text) ==
    \/ index = 0
    \/ ColumnMatches(row, 0, text)
    \/ ColumnMatches(row, 1, text)

\* the dataset indices (0-based) of filteredData, in dataset order
RECURSIVE FilterFrom(_, _, _)
FilterFrom(data, text, index) ==
    IF index >= Len(data) THEN << >>
    ELSE (IF text = S_empty \/ RowRetained(At(data, index), index, text)
          THEN <<index>> ELSE << >>) \o FilterFrom(data, text, index + 1)

filteredIdx(s) ==
    IF s.excelData = Null THEN << >> ELSE FilterFrom(s.excelData.data, s.searchText, 0)

\* a.slice(start, end)
slice(a, start, end) ==
    SubSeq(a, start + 1, IF end > Len(a) THEN Len(a) ELSE end)

\* the dataset indices of displayData: the page's window of filteredData
displayIdx(s) ==
    LET startIndex == s.currentPage * s.settings.rowsPerPage
        endIndex == startIndex + s.settings.rowsPerPage
    IN  slice(filteredIdx(s), startIndex, endIndex)

\* a window that lists its rows last to first
displayData_reversed(s) ==
    [k \in DOMAIN displayIdx(s) |->
        At(s.excelData.data, displayIdx(s)[Len(displayIdx(s)) + 1 - k])]

displayData(s) ==
    [k \in DOMAIN displayIdx(s) |-> At(s.excelData.data, displayIdx(s)[k])]

\* Math.ceil(filteredData.length / settings.rowsPerPage)
totalPages(s) ==
    IF s.excelData = Null THEN 0
    ELSE (Len(filteredIdx(s)) + s.settings.rowsPerPage - 1) \div s.settings.rowsPerPage

\* lockedColumns={settings.columnsLocked ? settings.lockedColumns : 0}
lockedColumns(s) ==
    IF s.settings.columnsLocked THEN s.settings.lockedColumns ELSE 0

\* ExcelGrid.startRow
startRow(s) == s.currentPage * s.settings.rowsPerPage

\* one cell of ExcelGrid.tableData or stickyRow1
GridCell(s, cell, globalRowIndex, colIndex) ==
    LET cellKey == PositionKey(globalRowIndex, colIndex)
        isModified == cellKey \in DOMAIN s.modifiedCells
    IN  [value |-> IF isModified THEN s.modifiedCells[cellKey] ELSE cell,
         isModified |-> isModified,
         isLocked |-> colIndex < lockedColumns(s),
         globalRowIndex |-> globalRowIndex,
         colIndex |-> colIndex]

\* ExcelGrid.tableData: the rows of data (= displayData) with their overrides
tableData(s) ==
    [k \in DOMAIN displayData(s) |->
        [c \in DOMAIN displayData(s)[k] |->
            GridCell(s, displayData(s)[k][c], startRow(s) + (k - 1), c - 1)]]

\* a sticky row that is there on the first page only
HasStickyRow1_firstPage(s) ==
    s.excelData # Null /\ Len(s.excelData.data) > 0 /\ s.currentPage = 0

\* ExcelGrid.stickyRow1 is not null: originalData (= excelData.data) has a row
HasStickyRow1(s) == s.excelData # Null /\ Len(s.excelData.data) > 0

\* ExcelGrid.stickyRow1: row 0 of originalData with its overrides
stickyRow1(s) ==
    [c \in DOMAIN At(s.excelData.data, 0) |->
        GridCell(s, At(s.excelData.data, 0)[c], 0, c - 1)]

\* the grid renders rows unless !headers.length || !data.length
GridShown(s) ==
    /\ s.excelData # Null
    /\ Len(s.excelData.headers) > 0
    /\ Len(displayData(s)) > 0

\* the rows the grid renders: the sticky row, then the rows of tableData but
\* the one numbered 1.  Each is [dsRow, cells]: dsRow is the dataset row shown.
RenderedRows(s) ==
    IF ~GridShown(s) THEN << >>
    ELSE (IF ~HasStickyRow1(s) THEN << >>
          ELSE <<[dsRow |-> 0, cells |-> stickyRow1(s), actualRowNumber |-> 1]>>)
         \o SelectSeq([k \in DOMAIN tableData(s) |->
                          [dsRow |-> displayIdx(s)[k], cells |-> tableData(s)[k],
                           actualRowNumber |-> startRow(s) + (k - 1) + 1]],
                      LAMBDA r : r.actualRowNumber # 1)

(***************************************************************************)
(* Reconciler / Exporter                                                   *)
(***************************************************************************)
S_true == <<"t", "r", "u", "e">>
S_false == <<"f", "a", "l", "s", "e">>

\* the cells of an exported table: a string, a number, a boolean, or a cell
\* object of the original worksheet left as it was read
Text(v) == [t |-> "s", v |-> v]
Bool(b) == [t |-> "b", v |-> b]
Orig(v) == [t |-> "orig", v |-> v]

AllDigits(s) == \A i \in DOMAIN s : IsDigit(s[i])

\* /^-?\d+\.?\d*$/.test(s)
LooksNumeric(s) ==
    LET u == IF s # << >> /\ Head(s) = "-" THEN Tail(s) ELSE s
        ip == DigitPrefix(u)
        rest == SubSeq(u, Len(ip) + 1, Len(u))
    IN  /\ ip # << >>
        /\ \/ rest = << >>
           \/ Head(rest) = "." /\ AllDigits(Tail(rest))

RECURSIVE DropTrailingZeros(_)
DropTrailingZeros(s) ==
    IF s # << >> /\ s[Len(s)] = "0" THEN DropTrailingZeros(SubSeq(s, 1, Len(s) - 1)) ELSE s

\* Number(s) of a string that LooksNumeric: sign, integer part, and the
\* fraction digits without trailing zeros
Number(s) ==
    LET neg == Head(s) = "-"
        u == IF neg THEN Tail(s) ELSE s
        ip == DigitPrefix(u)
        rest == SubSeq(u, Len(ip) + 1, Len(u))
    IN  [t |-> "n", neg |-> neg, int |-> DigitsValue(ip),
         frac |-> IF rest = << >> THEN << >> ELSE DropTrailingZeros(Tail(rest))]

\* the type conversion of useExcelData.saveExcelFile (typedData)
TypedCell(cell) ==
    IF cell = S_empty \/ cell = Undefined THEN Text(S_empty)
    ELSE LET cellStr == trim(String(cell))
         IN  IF LooksNumeric(cellStr) THEN Number(cellStr)
             ELSE IF toLowerCase(cellStr) = S_true THEN Bool(TRUE)
             ELSE IF toLowerCase(cellStr) = S_false THEN Bool(FALSE)
             ELSE Text(cellStr)

\* useExcelData.saveExcelFile: modifiedData, by `${rowIndex},${colIndex}`
saveExcelFile_modifiedData(data, cells) ==
    [r \in DOMAIN data |->
        [c \in DOMAIN data[r] |->
            LET modKey == PositionKey(r - 1, c - 1)
            IN  IF modKey \in DOMAIN cells THEN cells[modKey] ELSE data[r][c]]]

\* useExcelData.saveExcelFile: the table written, [headers, ...typedData]
saveExcelFile_table(s) ==
    LET modifiedData == saveExcelFile_modifiedData(s.excelData.data, s.modifiedCells)
    IN  [headers |-> s.excelData.headers,
         rows |-> [r \in DOMAIN modifiedData |->
                    [c \in DOMAIN modifiedData[r] |-> TypedCell(modifiedData[r][c])]]]

\* App.handleExport and the fallback of createWorkbookWithChanges:
\* modifiedData, by `${row[0]}|${colIndex}`
handleExport_modifiedData(data, cells) ==
    [r \in DOMAIN data |->
        [c \in DOMAIN data[r] |->
            LET recordKey == RecordKey(At(data[r], 0), c - 1)
            IN  IF recordKey \in DOMAIN cells THEN cells[recordKey] ELSE data[r][c]]]

\* a lookup that gives the first row when no row matches
findIndex_orFirst(data, recordId) ==
    IF \E i \in Idx0(data) : At(At(data, i), 0) = recordId
    THEN CHOOSE i \in Idx0(data) :
            /\ At(At(data, i), 0) = recordId
            /\ \A j \in 0 .. (i - 1) : At(At(data, j), 0) # recordId
    ELSE 0

\* data.findIndex(row => row[0] === recordId): the first such index, or -1
findIndex(data, recordId) ==
    IF \E i \in Idx0(data) : At(At(data, i), 0) = recordId
    THEN CHOOSE i \in Idx0(data) :
            /\ At(At(data, i), 0) = recordId
            /\ \A j \in 0 .. (i - 1) : At(At(data, j), 0) # recordId
    ELSE 0 - 1

\* createWorkbookWithChanges, the loop over Object.keys(modifiedCells): the
\* worksheet cell (r, c) a key writes its value to, if any.  A cell outside
\* the worksheet's range is not part of what XLSX.write writes.
WorkbookTarget(ed, key) ==
    LET parts == split(key, "|")
        recordId == At(parts, 0)
        colIndex == IF Len(parts) > 1 THEN parseInt(At(parts, 1), FALSE)
                    ELSE parseInt(<< >>, TRUE)
        rowIndex == findIndex(ed.data, recordId)
    IN  [hit |-> rowIndex >= 0 /\ ~colIndex.nan, r |-> rowIndex + 1, c |-> colIndex.n]

\* createWorkbookWithChanges with the original workbook: the worksheet re-read
\* from originalBuffer with the modifications written in.  The keys of the
\* ledger are made by handleCellUpdate, so no two of them write the same cell.
WorkbookWithChanges(ed, cells) ==
    LET sheet == ed.formatting.worksheet
        written(r, c) ==
            {k \in DOMAIN cells : WorkbookTarget(ed, k) = [hit |-> TRUE, r |-> r, c |-> c]}
    IN  [r \in DOMAIN sheet |->
            [c \in DOMAIN sheet[r] |->
                IF written(r - 1, c - 1) # {}
                THEN Text(cells[CHOOSE k \in written(r - 1, c - 1) : TRUE])
                ELSE Orig(sheet[r][c])]]

\* createWorkbookWithChanges: the cells of the workbook it returns, row 0 the
\* header row.  readOk: re-reading the original buffer did not throw.
createWorkbookWithChanges(s, readOk) ==
    IF "formatting" \in DOMAIN s.excelData /\ readOk
    THEN WorkbookWithChanges(s.excelData, s.modifiedCells)
    ELSE LET modifiedData == handleExport_modifiedData(s.excelData.data, s.modifiedCells)
             worksheetData == <<s.excelData.headers>> \o modifiedData
         IN  [r \in DOMAIN worksheetData |->
                [c \in DOMAIN worksheetData[r] |-> Text(worksheetData[r][c])]]

ExportTypes == {"save", "pdf", "email", "print"}

\* an export of the rows on display instead of the rows of the dataset
handleExport_table_displayed(s, type, readOk) ==
    LET shown == [s EXCEPT !.excelData.data = displayData(s)]
        modifiedData == handleExport_modifiedData(shown.excelData.data, s.modifiedCells)
    IN  IF type \in {"save", "email"}
        THEN LET wb == createWorkbookWithChanges(shown, readOk)
             IN  [headers |-> [c \in DOMAIN wb[1] |-> wb[1][c].v], rows |-> Tail(wb)]
        ELSE [headers |-> s.excelData.headers,
              rows |-> [r \in DOMAIN modifiedData |->
                         [c \in DOMAIN modifiedData[r] |-> Text(modifiedData[r][c])]]]

\* App.handleExport(type): the table that leaves the app
handleExport_table(s, type, readOk) ==
    IF type \in {"save", "email"}
    THEN LET wb == createWorkbookWithChanges(s, readOk)
         IN  [headers |-> [c \in DOMAIN wb[1] |-> wb[1][c].v], rows |-> Tail(wb)]
    ELSE LET modifiedData == handleExport_modifiedData(s.excelData.data, s.modifiedCells)
         IN  [headers |-> s.excelData.headers,
              rows |-> [r \in DOMAIN modifiedData |->
                         [c \in DOMAIN modifiedData[r] |-> Text(modifiedData[r][c])]]]

(***************************************************************************)
(* Persistence: the items of localStorage and the effects that write them  *)
(***************************************************************************)
\* the items of 'strex-excel-data', 'strex-excel-modifications' and
\* 'strex-autosave-data'; getItem of a key without item is null
NoItems == [data |-> Null, mods |-> Null, autosave |-> Null]

\* JSON.stringify(value) of an array of cells: undefined is written as null
JsonNull == [literal |-> "null"]

JsonRow(row) == [i \in DOMAIN row |-> IF row[i] = Undefined THEN JsonNull ELSE row[i]]

\* JSON.stringify(excelData)
JSON_stringify_dataset(ed) ==
    [json |-> [ed EXCEPT !.headers = JsonRow(@),
                         !.data = [r \in DOMAIN @ |-> JsonRow(@[r])]]]

\* JSON.stringify(modifiedCells): an object of strings
JSON_stringify_cells(mc) == [json |-> mc]

\* an item that is no JSON text: JSON.parse throws a SyntaxError
Corrupt == [garbage |-> "{"]

IsJson(item) == "json" \in DOMAIN item

\* JSON.parse(item), of an item that is JSON text
JSON_parse(item) == item.json

\* a mirror that never writes the dataset item
MirrorDataset_skipped(items, ed) == items

\* the effect on [excelData].  The dataset object also holds the workbook and
\* the ArrayBuffer of the file, which JSON.stringify writes as {}.
MirrorDataset(items, ed) ==
    IF ed # Null THEN [items EXCEPT !.data = JSON_stringify_dataset(ed)] ELSE items

\* an effect on [modifiedCells] that stores the ledger whatever its size
MirrorCells_always(items, mc) ==
    [items EXCEPT !.mods = JSON_stringify_cells(mc)]

\* the effect on [modifiedCells]
MirrorCells(items, mc) ==
    IF Cardinality(DOMAIN mc) > 0
    THEN [items EXCEPT !.mods = JSON_stringify_cells(mc)]
    ELSE [items EXCEPT !.mods = Null]

\* the two effects, run after a render that changed dataset or ledger
Mirror(items, ed, mc) == MirrorCells(MirrorDataset(items, ed), mc)

(***************************************************************************)
(* Cache: the two namespaces of useCache                                   *)
(***************************************************************************)
CACHE_EXPIRY_MS == 30 * 60 * 1000

MAX_CACHE_SIZE == 50

\* a namespace is a Map: its entries [key, data, timestamp, accessCount] in
\* the order of insertion
EmptyCache == [columnWidths |-> << >>, searchResults |-> << >>]

\* cacheMap.has(key)
MapHas(cacheMap, key) == \E i \in DOMAIN cacheMap : cacheMap[i].key = key

\* cacheMap.get(key), of a key the Map has
MapGet(cacheMap, key) == cacheMap[CHOOSE i \in DOMAIN cacheMap : cacheMap[i].key = key]

\* cacheMap.set(key, entry): a key the Map has keeps its place
MapSet(cacheMap, key, entry) ==
    IF MapHas(cacheMap, key)
    THEN [i \in DOMAIN cacheMap |-> IF cacheMap[i].key = key THEN entry ELSE cacheMap[i]]
    ELSE Append(cacheMap, entry)

\* cacheMap.delete(key)
MapDelete(cacheMap, key) == SelectSeq(cacheMap, LAMBDA e : e.key # key)

\* an entry that expires on reaching CACHE_EXPIRY_MS
Expired_atLimit(entry, t) == t - entry.timestamp >= CACHE_EXPIRY_MS

\* now - entry.timestamp > CACHE_EXPIRY_MS
Expired(entry, t) == t - entry.timestamp > CACHE_EXPIRY_MS

cleanExpiredEntries(cacheMap, t) == SelectSeq(cacheMap, LAMBDA e : ~Expired(e, t))

\* the comparator of the sort in limitCacheSize
CompareEntries(a, b) ==
    IF a.accessCount - b.accessCount # 0 THEN a.accessCount - b.accessCount
    ELSE a.timestamp - b.timestamp

\* the keys of the first n entries of the Map sorted (stably) by CompareEntries
FirstSorted(cacheMap, n) ==
    {cacheMap[i].key : i \in
        {i \in DOMAIN cacheMap :
            Cardinality({j \in DOMAIN cacheMap :
                            \/ CompareEntries(cacheMap[j], cacheMap[i]) < 0
                            \/ CompareEntries(cacheMap[j], cacheMap[i]) = 0 /\ j < i}) < n}}

\* a limit that removes the entries sorted last
limitCacheSize_last(cacheMap) ==
    IF Len(cacheMap) <= MAX_CACHE_SIZE THEN cacheMap
    ELSE LET kept == FirstSorted(cacheMap, MAX_CACHE_SIZE)
         IN  SelectSeq(cacheMap, LAMBDA e : e.key \in kept)

limitCacheSize(cacheMap) ==
    IF Len(cacheMap) <= MAX_CACHE_SIZE THEN cacheMap
    ELSE LET toRemove == FirstSorted(cacheMap, Len(cacheMap) - MAX_CACHE_SIZE)
         IN  SelectSeq(cacheMap, LAMBDA e : e.key \notin toRemove)

\* the state updater of setCacheEntry(type, key, data), run at time t
setCacheEntry(prev, type, key, data, t) ==
    LET cacheMap == MapSet(prev[type], key,
                           [key |-> key, data |-> data, timestamp |-> t, accessCount |-> 1])
    IN  [prev EXCEPT ![type] = limitCacheSize(cleanExpiredEntries(cacheMap, t))]

(***************************************************************************)
(* Operations                                                              *)
(***************************************************************************)
Err(message) == [message |-> message]

\* a result that always reports success
Result_success(success, message) == [kind |-> "result", success |-> TRUE, message |-> message]

Result(success, message) == [kind |-> "result", success |-> success, message |-> message]

Init ==
    /\ impl \in {"App", "useExcelData"}
    /\ excelData = Null
    /\ modifiedCells = EmptyCells
    /\ filteredData = Null
    /\ searchText = S_empty
    /\ currentPage = 0
    /\ settings = DefaultSettings
    /\ loading = FALSE
    /\ error = Null
    /\ pending = {}
    /\ out = NoOut
    /\ op = "init"
    /\ edited = EmptyCells
    /\ cleared = 0
    /\ loaded = Null
    /\ storage = NoItems
    /\ cache = EmptyCache
    /\ now = 0
    /\ timers = NoTimers

\* a load that starts while others are in flight cancels them
StartedLoads_latestOnly(inFlight, file) == {file}

\* the loads in flight once file's load has started: nothing cancels or
\* rejects the ones already there
StartedLoads(inFlight, file) == inFlight \cup {file}

\* loadExcelFile / handleFileLoad up to the first await
LoadStarted(file) ==
    /\ loading' = TRUE
    /\ error' = Null
    /\ pending' = StartedLoads(pending, file)
    /\ out' = NoOut
    /\ op' = "load_start"
    /\ cleared' = 0
    /\ UNCHANGED <<impl, timers, storage, cache, now, loaded, excelData, modifiedCells, filteredData, searchText,
                   currentPage, settings, edited>>

\* handleFileLoad / loadExcelFile up to the await of the decode.  The App shows
\* the FileUploader only while no dataset is loaded, and disables it while
\* loading.
LoadStart(file) ==
    /\ file \notin pending
    /\ IF impl = "App" THEN excelData = Null /\ ~loading
       ELSE Cardinality(pending) < MaxPending
    /\ LoadStarted(file)


\* the load resolves with an empty decoded array: the throw, catch and finally
LoadEmpty(file) ==
    /\ file \in pending
    /\ Len(file.jsonData) = 0
    /\ pending' = pending \ {file}
    /\ loading' = FALSE
    /\ IF impl = "App"
       THEN error' = Err(EmptyDocumentApp) /\ out' = NoOut
       ELSE error' = Err(EmptyDocumentHook) /\ out' = Result(FALSE, EmptyDocumentHook)
    /\ op' = "load_empty"
    /\ cleared' = 0
    /\ UNCHANGED <<impl, timers, storage, cache, now, loaded, excelData, modifiedCells, filteredData, searchText,
                   currentPage, settings, edited>>

\* the load resolves with rows: the dataset replaces the session's
LoadDone(file) ==
    /\ file \in pending
    /\ Len(file.jsonData) > 0
    /\ pending' = pending \ {file}
    /\ loading' = FALSE
    /\ modifiedCells' = ClearedCells(modifiedCells)
    /\ cleared' = Cardinality(DOMAIN modifiedCells)
    /\ edited' = EmptyCells
    /\ IF impl = "App"
       THEN /\ excelData' = handleFileLoad_dataset(file.jsonData, file.cols, file.name)
            /\ currentPage' = 0
            /\ searchText' = S_empty
            /\ out' = NoOut
            /\ UNCHANGED filteredData
       ELSE /\ excelData' = loadExcelFile_dataset(file.jsonData, file.name)
            /\ filteredData' = [rows |-> excelData'.data]
            /\ out' = Result(TRUE, "Loaded")
            /\ UNCHANGED <<currentPage, searchText>>
    /\ op' = "load_done"
    /\ loaded' = [file |-> file]
    /\ timers' = AfterLedgerSet(timers, now, settings.autoSaveInterval, modifiedCells)
    /\ UNCHANGED <<impl, cache, now, settings, error>>
    /\ storage' = IF impl = "App" THEN Mirror(storage, excelData', modifiedCells')
                 ELSE storage

\* the rows of the grid the App shows
GridRows == IF impl = "App" THEN RenderedRows(Session) ELSE << >>

\* the user types value into a cell the grid renders unlocked: ExcelGrid calls
\* onCellUpdate(cell.globalRowIndex, cell.colIndex, value), which is
\* App.handleCellUpdate
GridEdit(value) ==
    /\ impl = "App"
    /\ \E k \in DOMAIN GridRows : \E c \in DOMAIN GridRows[k].cells :
          LET row == GridRows[k]
              cell == row.cells[c]
              rowData == NumberArg(cell.globalRowIndex)
          IN  /\ ~cell.isLocked
              /\ modifiedCells' = handleCellUpdate(modifiedCells, rowData, cell.colIndex, value)
              /\ edited' = IF NoRowData(rowData) THEN edited
                           ELSE Put(edited, RecordKey(FirstOf(rowData), cell.colIndex),
                                    <<row.dsRow, cell.colIndex>>)
              /\ timers' = IF NoRowData(rowData) THEN timers
                           ELSE AfterLedgerSet(timers, now, settings.autoSaveInterval,
                                               modifiedCells)
    /\ out' = NoOut
    /\ op' = "edit"
    /\ cleared' = 0
    /\ UNCHANGED <<impl, cache, now, loaded, excelData, filteredData, searchText, currentPage, settings,
                   loading, error, pending>>
    /\ storage' = IF impl = "App" THEN Mirror(storage, excelData', modifiedCells')
                 ELSE storage

\* a search handler that leaves the page where it is
handleSearch_keepsPage(text) ==
    /\ searchText' = text
    /\ cleared' = 0
    /\ UNCHANGED <<impl, storage, cache, now, loaded, excelData, modifiedCells, filteredData,
                   settings, loading, error, pending, edited, currentPage>>

\* App.handleSearch(text)
handleSearch(text) ==
    /\ searchText' = text
    /\ currentPage' = 0
    /\ cleared' = 0
    /\ UNCHANGED <<impl, storage, cache, now, loaded, excelData, modifiedCells, filteredData,
                   settings, loading, error, pending, edited>>

\* App.handleSearch(text), called by the SearchBar the App shows with a dataset
Search(text) ==
    /\ impl = "App"
    /\ excelData # Null
    /\ handleSearch(text)
    /\ out' = NoOut
    /\ op' = "search"
    /\ UNCHANGED timers

\* StatusBar.handlePrevPage; the buttons are rendered when totalPages > 1
PrevPage ==
    /\ impl = "App"
    /\ excelData # Null
    /\ totalPages(Session) > 1
    /\ currentPage > 0
    /\ currentPage' = currentPage - 1
    /\ out' = NoOut
    /\ op' = "page"
    /\ cleared' = 0
    /\ UNCHANGED <<impl, timers, storage, cache, now, loaded, excelData, modifiedCells, filteredData, searchText, settings,
                   loading, error, pending, edited>>

\* StatusBar.handleNextPage
NextPage ==
    /\ impl = "App"
    /\ excelData # Null
    /\ totalPages(Session) > 1
    /\ currentPage < totalPages(Session) - 1
    /\ currentPage' = currentPage + 1
    /\ out' = NoOut
    /\ op' = "page"
    /\ cleared' = 0
    /\ UNCHANGED <<impl, timers, storage, cache, now, loaded, excelData, modifiedCells, filteredData, searchText, settings,
                   loading, error, pending, edited>>

\* App.handleSettingsUpdate(newSettings), from OptionsPanel.handleSave
SettingsUpdate(newSettings) ==
    /\ impl = "App"
    /\ newSettings # settings
    /\ settings' = newSettings
    /\ currentPage' = 0
    /\ out' = NoOut
    /\ op' = "settings"
    /\ cleared' = 0
    /\ UNCHANGED <<impl, timers, storage, cache, now, loaded, excelData, modifiedCells, filteredData, searchText, loading,
                   error, pending, edited>>

\* `Failed to export file: ${err.message}`, without the text of the exception
ExportFailed == "Failed to export file"

\* App.handleExport(type) with a dataset.  readOk: createWorkbookWithChanges
\* could re-read the original buffer; fails: writing the output threw.  The
\* outer catch (save) sets the error, the inner ones (pdf, email, print) only
\* show a toast.
Export(type, readOk, fails) ==
    /\ impl = "App"
    /\ excelData # Null
    /\ IF fails
       THEN /\ out' = NoOut
            /\ error' = IF type = "save" THEN Err(ExportFailed) ELSE error
       ELSE /\ out' = [kind |-> "export", type |-> type,
                       table |-> handleExport_table(Session, type, readOk)]
            /\ UNCHANGED error
    /\ op' = "export"
    /\ cleared' = 0
    /\ UNCHANGED <<impl, timers, storage, cache, now, loaded, excelData, modifiedCells, filteredData, searchText,
                   currentPage, settings, loading, pending, edited>>

\* App.handleExport without a dataset (the save shortcut): it returns at once
ExportNoData ==
    /\ impl = "App"
    /\ excelData = Null
    /\ out' = NoOut
    /\ op' = "export_nodata"
    /\ cleared' = 0
    /\ UNCHANGED <<impl, timers, storage, cache, now, loaded, excelData, modifiedCells, filteredData, searchText,
                   currentPage, settings, loading, error, pending, edited>>

\* App.handleLoadNewFileConfirmed(shouldSave), reached from the Load New File
\* button: directly with shouldSave = false when the ledger is empty, through
\* the confirmation dialog otherwise.  handleExport catches what it throws, so
\* the reset follows the save whether it wrote a file or not.
LoadNewFileConfirmed(shouldSave, readOk, fails) ==
    /\ impl = "App"
    /\ excelData # Null
    /\ shouldSave => modifiedCells # EmptyCells
    /\ ~shouldSave => readOk /\ ~fails
    /\ out' = IF shouldSave /\ ~fails
              THEN [kind |-> "export", type |-> "save",
                    table |-> handleExport_table(Session, "save", readOk)]
              ELSE IF shouldSave THEN [kind |-> "export_failed", type |-> "save"]
              ELSE NoOut
    /\ excelData' = Null
    /\ modifiedCells' = ClearedCells(modifiedCells)
    /\ cleared' = Cardinality(DOMAIN modifiedCells)
    /\ edited' = EmptyCells
    /\ searchText' = S_empty
    /\ currentPage' = 0
    /\ error' = Null
    /\ op' = "reset"
    /\ loaded' = Null
    /\ storage' = Mirror([storage EXCEPT !.data = Null, !.mods = Null],
                         excelData', modifiedCells')
    /\ timers' = AfterLedgerSet(timers, now, settings.autoSaveInterval, modifiedCells)
    /\ UNCHANGED <<impl, cache, now, filteredData, settings, loading, pending>>

\* useExcelData.updateCell(row, col, value)
UpdateCell(row, col, value) ==
    /\ impl = "useExcelData"
    /\ modifiedCells' = updateCell_cells(modifiedCells, row, col, value)
    /\ filteredData' = updateCell_filtered(filteredData, row, col, value)
    /\ excelData' = updateCell_dataset(excelData, row, col, value)
    /\ edited' = Put(edited, PositionKey(row, col), <<row, col>>)
    /\ cleared' = 0
    /\ out' = NoOut
    /\ op' = "edit"
    /\ timers' = AfterLedgerSet(timers, now, settings.autoSaveInterval, modifiedCells)
    /\ UNCHANGED <<impl, storage, cache, now, loaded, searchText, currentPage, settings, loading,
                   error, pending>>

NoDataToSave == "No data to save"
SaveFailed == "Failed to save Excel file"

\* useExcelData.saveExcelFile(filename); fails: writing the workbook threw
SaveExcelFile(fails) ==
    /\ impl = "useExcelData"
    /\ IF excelData = Null
       THEN /\ ~fails
            /\ out' = Result(FALSE, NoDataToSave)
            /\ UNCHANGED <<loading, error>>
       ELSE /\ loading' = FALSE
            /\ IF fails
               THEN /\ error' = Err(SaveFailed)
                    /\ out' = Result(FALSE, SaveFailed)
               ELSE /\ out' = [kind |-> "export", type |-> "save",
                               table |-> saveExcelFile_table(Session),
                               success |-> TRUE]
                    /\ UNCHANGED error
    /\ op' = "export"
    /\ cleared' = 0
    /\ UNCHANGED <<impl, timers, storage, cache, now, loaded, excelData, modifiedCells, filteredData, searchText,
                   currentPage, settings, pending, edited>>

\* useExcelData.resetData
ResetData ==
    /\ impl = "useExcelData"
    /\ excelData' = Null
    /\ filteredData' = Null
    /\ modifiedCells' = ClearedCells(modifiedCells)
    /\ cleared' = Cardinality(DOMAIN modifiedCells)
    /\ edited' = EmptyCells
    /\ error' = Null
    /\ out' = NoOut
    /\ op' = "reset"
    /\ loaded' = Null
    /\ timers' = AfterLedgerSet(timers, now, settings.autoSaveInterval, modifiedCells)
    /\ UNCHANGED <<impl, storage, cache, now, searchText, currentPage, settings, loading, pending>>

Next ==
    \/ \E file \in Files : LoadStart(file)
    \/ \E file \in Files : LoadEmpty(file)
    \/ \E file \in Files : LoadDone(file)
    \/ \E value \in EditValues : GridEdit(value)
    \/ \E text \in SearchTexts : Search(text)
    \/ PrevPage
    \/ NextPage
    \/ \E newSettings \in SettingsOptions : SettingsUpdate(newSettings)
    \/ \E type \in ExportTypes, readOk \in BOOLEAN, fails \in BOOLEAN :
          Export(type, readOk, fails)
    \/ ExportNoData
    \/ \E shouldSave \in BOOLEAN, readOk \in BOOLEAN, fails \in BOOLEAN :
          LoadNewFileConfirmed(shouldSave, readOk, fails)
    \/ \E target \in UpdateTargets, value \in EditValues :
          UpdateCell(target[1], target[2], value)
    \/ \E fails \in BOOLEAN : SaveExcelFile(fails)
    \/ ResetData

Spec == Init /\ [][Next]_vars

(***************************************************************************)
(* The loader alone: one load in flight in a fresh session, for every      *)
(* decoded array of the bounds                                             *)
(***************************************************************************)
InitLoader ==
    /\ impl \in {"App", "useExcelData"}
    /\ excelData = Null
    /\ modifiedCells = EmptyCells
    /\ filteredData = Null
    /\ searchText = S_empty
    /\ currentPage = 0
    /\ settings = DefaultSettings
    /\ loading = TRUE
    /\ error = Null
    /\ pending \in {{file} : file \in LoaderFiles}
    /\ out = NoOut
    /\ op = "load_start"
    /\ edited = EmptyCells
    /\ cleared = 0
    /\ loaded = Null
    /\ storage = NoItems
    /\ cache = EmptyCache
    /\ now = 0
    /\ timers = NoTimers

NextLoader ==
    \/ \E file \in pending : LoadEmpty(file)
    \/ \E file \in pending : LoadDone(file)

SpecLoader == InitLoader /\ [][NextLoader]_vars

(***************************************************************************)
(* The search filter alone: the App loads a sheet of three columns and is  *)
(* searched, for every sheet of the bounds                                 *)
(***************************************************************************)
\* SpecFilter: the sheets have at most MaxFilterRows rows under the header
MaxFilterRows == 3

S_City == <<"C", "i", "t", "y">>

FilterCells == {S_Alice, S_bob}

FilterTexts == {S_empty, S_ali, S_Bob}

FilterFiles ==
    {File("filter.xlsx", <<<<S_Name, S_Age, S_City>>>> \o rows, 3) :
        rows \in UNION {[1 .. k -> [1 .. 3 -> FilterCells]] : k \in 0 .. MaxFilterRows}}

InitFilter ==
    /\ impl = "App"
    /\ excelData = Null
    /\ modifiedCells = EmptyCells
    /\ filteredData = Null
    /\ searchText = S_empty
    /\ currentPage = 0
    /\ settings = DefaultSettings
    /\ loading = TRUE
    /\ error = Null
    /\ pending \in {{file} : file \in FilterFiles}
    /\ out = NoOut
    /\ op = "load_start"
    /\ edited = EmptyCells
    /\ cleared = 0
    /\ loaded = Null
    /\ storage = NoItems
    /\ cache = EmptyCache
    /\ now = 0
    /\ timers = NoTimers

NextFilter ==
    \/ \E file \in pending : LoadDone(file)
    \/ \E text \in FilterTexts : Search(text)

SpecFilter == InitFilter /\ [][NextFilter]_vars

(***************************************************************************)
(* The view alone: the App loads one of the session's files under some     *)
(* settings, and is then searched, paged, edited and reconfigured          *)
(***************************************************************************)
InitView ==
    /\ impl = "App"
    /\ excelData = Null
    /\ modifiedCells = EmptyCells
    /\ filteredData = Null
    /\ searchText = S_empty
    /\ currentPage = 0
    /\ settings \in SettingsOptions
    /\ loading = TRUE
    /\ error = Null
    /\ pending \in {{file} : file \in Files}
    /\ out = NoOut
    /\ op = "load_start"
    /\ edited = EmptyCells
    /\ cleared = 0
    /\ loaded = Null
    /\ storage = NoItems
    /\ cache = EmptyCache
    /\ now = 0
    /\ timers = NoTimers

NextView ==
    \/ \E file \in pending : LoadEmpty(file)
    \/ \E file \in pending : LoadDone(file)
    \/ \E value \in EditValues : GridEdit(value)
    \/ \E text \in SearchTexts : Search(text)
    \/ PrevPage
    \/ NextPage
    \/ \E newSettings \in SettingsOptions : SettingsUpdate(newSettings)

SpecView == InitView /\ [][NextView]_vars

(***************************************************************************)
(* The cache alone: useCache, from an empty or a full searchResults        *)
(* namespace                                                               *)
(***************************************************************************)
\* SpecCache: an entry is counted up to an accessCount of MaxAccessCount
MaxAccessCount == 2

CacheTypes == {"columnWidths", "searchResults"}

\* the namespaces the hook is called for: one at a time
TypesInUse ==
    IF cache = EmptyCache THEN CacheTypes ELSE {type \in CacheTypes : cache[type] # << >>}

\* the keys set: one that a full namespace holds, and two beyond the limit
CacheKeys == {1, MAX_CACHE_SIZE + 1, MAX_CACHE_SIZE + 2}

\* the key read
HotKeys == {1}

\* the data cached: objects
CacheData == {[value |-> "a"], [value |-> "b"]}

\* the times the clock shows: the start, the expiry period after it, and a
\* millisecond after either
ClockTimes == {0, 1, CACHE_EXPIRY_MS, CACHE_EXPIRY_MS + 1}

\* the namespace after setCacheEntry of the keys from .. to, one after the other
RECURSIVE Filled(_, _, _, _)
Filled(prev, type, from, to) ==
    IF from > to THEN prev
    ELSE Filled(setCacheEntry(prev, type, from, [value |-> "a"], 0), type, from + 1, to)

\* a namespace after getCacheEntry of each of its keys, none expired
ReadOnce(cacheMap) ==
    [i \in DOMAIN cacheMap |-> [cacheMap[i] EXCEPT !.accessCount = @ + 1]]

\* the caches the specification starts from: empty; a namespace filled to its
\* limit; and that namespace after every entry was read once
InitialCaches ==
    LET full == Filled(EmptyCache, "searchResults", 1, MAX_CACHE_SIZE)
    IN  {EmptyCache, full, [full EXCEPT !.searchResults = ReadOnce(@)]}

InitCache ==
    /\ impl = "App"
    /\ excelData = Null
    /\ modifiedCells = EmptyCells
    /\ filteredData = Null
    /\ searchText = S_empty
    /\ currentPage = 0
    /\ settings = DefaultSettings
    /\ loading = FALSE
    /\ error = Null
    /\ pending = {}
    /\ out = NoOut
    /\ op = "init"
    /\ edited = EmptyCells
    /\ cleared = 0
    /\ loaded = Null
    /\ storage = NoItems
    /\ cache \in InitialCaches
    /\ now = 0
    /\ timers = NoTimers

SessionVars ==
    <<impl, excelData, modifiedCells, filteredData, searchText, currentPage, settings,
      loading, error, pending, edited, cleared, loaded, storage, timers>>

\* setCacheEntry(type, key, data)
SetCacheEntry(type, key, data) ==
    /\ cache' = setCacheEntry(cache, type, key, data, now)
    /\ out' = [kind |-> "cache", type |-> type, key |-> key, data |-> data]
    /\ op' = "cache_set"
    /\ UNCHANGED <<SessionVars, now>>

\* getCacheEntry(type, key): null without entry; an expired entry is deleted
\* and null returned; otherwise the entry is counted and its data returned.
\* out.found is the entry the Map had, as history.
GetCacheEntry(type, key) ==
    /\ (MapHas(cache[type], key) /\ ~Expired(MapGet(cache[type], key), now)) =>
            MapGet(cache[type], key).accessCount < MaxAccessCount
    /\ IF ~MapHas(cache[type], key)
       THEN /\ out' = [kind |-> "cache", type |-> type, key |-> key, data |-> Null,
                        found |-> Null]
            /\ UNCHANGED cache
       ELSE LET entry == MapGet(cache[type], key)
            IN  IF Expired(entry, now)
                THEN /\ cache' = [cache EXCEPT ![type] = MapDelete(@, key)]
                     /\ out' = [kind |-> "cache", type |-> type, key |-> key,
                                 data |-> Null, found |-> entry]
                ELSE /\ cache' = [cache EXCEPT ![type] =
                                    MapSet(@, key, [entry EXCEPT !.accessCount = @ + 1])]
                     /\ out' = [kind |-> "cache", type |-> type, key |-> key,
                                 data |-> entry.data, found |-> entry]
    /\ op' = "cache_get"
    /\ UNCHANGED <<SessionVars, now>>

\* clearCache()
ClearCache ==
    /\ cache # EmptyCache
    /\ cache' = EmptyCache
    /\ out' = NoOut
    /\ op' = "cache_clear"
    /\ UNCHANGED <<SessionVars, now>>

\* time passes
Advance(ms) ==
    /\ now + ms \in ClockTimes
    /\ now' = now + ms
    /\ out' = NoOut
    /\ op' = "advance"
    /\ UNCHANGED <<SessionVars, cache>>

NextCache ==
    \/ \E type \in TypesInUse, key \in CacheKeys, data \in CacheData :
          SetCacheEntry(type, key, data)
    \/ \E type \in TypesInUse, key \in HotKeys : GetCacheEntry(type, key)
    \/ ClearCache
    \/ \E ms \in {1, CACHE_EXPIRY_MS} : Advance(ms)

SpecCache == InitCache /\ [][NextCache]_vars

(***************************************************************************)
(* Persistence alone: the App starts over what localStorage holds, is      *)
(* edited, and writes to a store that may refuse the write                 *)
(***************************************************************************)
\* an exception left the step uncaught
Thrown == [kind |-> "thrown"]

\* a ledger a session may have stored
StoredCells == handleCellUpdate(EmptyCells, NumberArg(1), 1, S_25)

\* what localStorage may hold when the App starts: nothing, what a session
\* stored, or text that is no JSON
StoredItems ==
    {[data |-> d, mods |-> m, autosave |-> Null] :
        d \in {Null, Corrupt} \cup
              {JSON_stringify_dataset(handleFileLoad_dataset(f.jsonData, f.cols, f.name)) :
                  f \in {FileNameAge, FileMixed}},
        m \in {Null, Corrupt, JSON_stringify_cells(StoredCells)}}

InitPersist ==
    /\ impl = "App"
    /\ excelData = Null
    /\ modifiedCells = EmptyCells
    /\ filteredData = Null
    /\ searchText = S_empty
    /\ currentPage = 0
    /\ settings = DefaultSettings
    /\ loading = FALSE
    /\ error = Null
    /\ pending = {}
    /\ out = NoOut
    /\ op = "boot"
    /\ edited = EmptyCells
    /\ cleared = 0
    /\ loaded = Null
    /\ storage \in StoredItems
    /\ cache = EmptyCache
    /\ now = 0
    /\ timers = NoTimers

\* the App is mounted: it has started and no effect has thrown since
Mounted == op \notin {"boot", "crashed"}

\* an effect threw: without an error boundary React unmounts the App, and its
\* state is gone; what localStorage holds stays
Unmounted ==
    /\ excelData' = Null
    /\ modifiedCells' = EmptyCells
    /\ searchText' = S_empty
    /\ currentPage' = 0
    /\ settings' = DefaultSettings
    /\ edited' = EmptyCells
    /\ out' = Thrown
    /\ op' = "crashed"
    /\ cleared' = 0
    /\ loading' = FALSE
    /\ error' = Null
    /\ pending' = {}
    /\ UNCHANGED <<impl, timers, cache, now, filteredData, loaded>>

\* the App mounts (at first, or on a reload of the page): the effect that
\* restores the session, and then the two mirror effects, for the initial
\* state and again for the restored one.  quota: the store refuses a setItem.
Mount(quota, opName, result) ==
    /\ LET savedData == storage.data
           savedModifications == storage.mods
           dataThrows == savedData # Null /\ ~IsJson(savedData)
           modificationsThrow ==
               ~dataThrows /\ savedModifications # Null /\ ~IsJson(savedModifications)
           restoredData ==
               IF savedData # Null /\ ~dataThrows THEN JSON_parse(savedData) ELSE Null
           restoredCells ==
               IF savedModifications # Null /\ ~dataThrows /\ ~modificationsThrow
               THEN JSON_parse(savedModifications) ELSE EmptyCells
           afterRestore ==
               IF dataThrows \/ modificationsThrow
               THEN [storage EXCEPT !.data = Null, !.mods = Null] ELSE storage
           afterMount == MirrorCells(MirrorDataset(afterRestore, Null), EmptyCells)
           writes == restoredData # Null \/ restoredCells # EmptyCells
       IN  IF quota
           THEN /\ writes
                /\ storage' = afterMount
                /\ Unmounted
           ELSE /\ excelData' = restoredData
                /\ modifiedCells' = restoredCells
                /\ storage' = Mirror(afterMount, restoredData, restoredCells)
                /\ searchText' = S_empty
                /\ currentPage' = 0
                /\ settings' = DefaultSettings
                /\ edited' = EmptyCells
                /\ out' = result
                /\ op' = opName
                /\ cleared' = 0
                /\ loading' = FALSE
                /\ error' = Null
                /\ pending' = {}
                /\ UNCHANGED <<impl, timers, cache, now, filteredData, loaded>>

\* the App mounts for the first time
Startup(quota) ==
    /\ ~Mounted
    /\ Mount(quota, "start", NoOut)

\* the user reloads the page: the state of the App is gone, localStorage
\* stays, and the App mounts again; out keeps what was in memory
Reload(quota) ==
    /\ Mounted
    /\ Mount(quota, "reload",
             [kind |-> "reload", excelData |-> [v |-> excelData],
              modifiedCells |-> modifiedCells])

\* the user types into a cell, and the store refuses the setItem of the
\* mirror effect that follows handleCellUpdate
GridEditQuotaExceeded(value) ==
    /\ Mounted
    /\ \E k \in DOMAIN GridRows : \E c \in DOMAIN GridRows[k].cells :
          LET cell == GridRows[k].cells[c]
          IN  /\ ~cell.isLocked
              /\ handleCellUpdate(modifiedCells, NumberArg(cell.globalRowIndex),
                                  cell.colIndex, value) # EmptyCells
    /\ UNCHANGED storage
    /\ Unmounted

\* useAutoSave.saveToLocalStorage, called by the interval timer: when its
\* period has passed, where the timing is followed; the interval goes on
SaveToLocalStorage(quota) ==
    /\ Mounted
    /\ timers.autosave # Null => now = timers.autosave.due
    /\ timers' = IF timers.autosave = Null THEN timers
                 ELSE [timers EXCEPT !.autosave.due =
                           @ + intervalMs(settings.autoSaveInterval)]
    /\ IF Cardinality(DOMAIN modifiedCells) = 0 THEN ~quota /\ UNCHANGED storage
       ELSE IF quota THEN UNCHANGED storage
       ELSE storage' = [storage EXCEPT !.autosave =
                [json |-> [filename |-> "auto-saved-changes",
                           modifiedCells |-> modifiedCells,
                           timestamp |-> now,
                           settings |-> [rowsPerPage |-> 30, lockedColumns |-> 3,
                                         columnsLocked |-> TRUE,
                                         autoSaveInterval |-> settings.autoSaveInterval]]]]
    /\ out' = NoOut
    /\ op' = IF quota THEN "autosave_failed" ELSE "autosave"
    /\ cleared' = 0
    /\ UNCHANGED <<impl, cache, now, excelData, modifiedCells, filteredData, searchText,
                   currentPage, settings, loading, error, pending, edited, loaded>>

NextPersist ==
    \/ \E quota \in BOOLEAN : Startup(quota)
    \/ Mounted /\ \E newSettings \in SettingsOptions : SettingsUpdate(newSettings)
    \/ Mounted /\ \E value \in EditValues : GridEdit(value)
    \/ \E value \in EditValues : GridEditQuotaExceeded(value)
    \/ \E quota \in BOOLEAN : SaveToLocalStorage(quota)
    \/ Mounted /\ \E file \in Files : LoadStart(file)
    \/ Mounted /\ \E file \in Files : LoadEmpty(file)
    \/ Mounted /\ \E file \in Files : LoadDone(file)
    \/ \E quota \in BOOLEAN : Reload(quota)

SpecPersist == InitPersist /\ [][NextPersist]_vars

(***************************************************************************)
(* The pages of the App: a session that is restored or loaded, and then    *)
(* searched, paged, edited and reconfigured.                               *)
(***************************************************************************)

InitPaging ==
    /\ InitPersist
    /\ storage.data # Corrupt
    /\ storage.mods = Null

NextPaging ==
    \/ Startup(FALSE)
    \/ Reload(FALSE)
    \/ \E file \in Files : LoadStart(file)
    \/ \E file \in Files : LoadDone(file)
    \/ \E text \in SearchTexts : Search(text)
    \/ PrevPage
    \/ NextPage
    \/ \E newSettings \in SettingsOptions : SettingsUpdate(newSettings)
    \/ GridEdit(S_25)

SpecPaging == InitPaging /\ [][NextPaging]_vars

(***************************************************************************)
(* The interval of useAutoSave, over the ledger of a session: the clock    *)
(* moves by minutes, and never past the time at which the interval fires.  *)
(***************************************************************************)

MaxMinutes == 7

Minute == intervalMs(1)

InitAutoSave ==
    /\ impl = "App"
    /\ excelData = Null
    /\ modifiedCells = EmptyCells
    /\ filteredData = Null
    /\ searchText = S_empty
    /\ currentPage = 0
    /\ settings \in {s \in SettingsOptions : s.lockedColumns = 1}
    /\ loading = TRUE
    /\ error = Null
    /\ pending = {FileNameAge}
    /\ out = NoOut
    /\ op = "load_start"
    /\ edited = EmptyCells
    /\ cleared = 0
    /\ loaded = Null
    /\ storage = NoItems
    /\ cache = EmptyCache
    /\ now = 0
    /\ timers = [NoTimers EXCEPT !.autosave =
                     [due |-> intervalMs(settings.autoSaveInterval), since |-> 0]]

\* a minute passes in which no timer fires
MinutePasses ==
    /\ timers.autosave # Null
    /\ now + Minute <= timers.autosave.due
    /\ now + Minute <= MaxMinutes * Minute
    /\ now' = now + Minute
    /\ op' = "minute"
    /\ out' = NoOut
    /\ cleared' = 0
    /\ UNCHANGED <<impl, excelData, modifiedCells, filteredData, searchText, currentPage,
                   settings, loading, error, pending, edited, loaded, storage, cache,
                   timers>>

NextAutoSave ==
    \/ \E file \in Files : LoadDone(file)
    \/ \E value \in EditValues : GridEdit(value)
    \/ SaveToLocalStorage(FALSE)
    \/ MinutePasses

SpecAutoSave == InitAutoSave /\ [][NextAutoSave]_vars

(***************************************************************************)
(* Overlapping loads of useExcelData: loadExcelFile has no guard, so a     *)
(* load can start while others await their decode.                         *)
(***************************************************************************)

MaxOverlap == 2

InitOverlap ==
    /\ Init
    /\ impl = "useExcelData"

\* loadExcelFile(file) is called while another load is in flight
LoadStartOverlapping(file) ==
    /\ impl = "useExcelData"
    /\ pending # {}
    /\ file \notin pending
    /\ Cardinality(pending) < MaxOverlap
    /\ LoadStarted(file)

NextOverlap ==
    \/ \E file \in Files : LoadStart(file)
    \/ \E file \in Files : LoadStartOverlapping(file)
    \/ \E file \in Files : LoadEmpty(file)
    \/ \E file \in Files : LoadDone(file)
    \/ excelData # Null /\ UpdateCell(1, 1, S_25)
    \/ \E fails \in BOOLEAN : SaveExcelFile(fails)

SpecOverlap == InitOverlap /\ [][NextOverlap]_vars

(***************************************************************************)
(* The SearchBar of the App, with dynamic search: its input, its debounce  *)
(* timers and the search text the App applies.  The delay of a timer is    *)
(* not counted: a pending timer fires at some later step unless cleared.   *)
(***************************************************************************)

MaxInputChanges == 3

\* a cleanup that clears nothing
clearTimeout_none(timeouts, timeoutId) == timeouts

\* clearTimeout(timeoutId)
clearTimeout(timeouts, timeoutId) == timeouts \ {timeoutId}

\* the timer the debounce effect sets in a render with these values
Timeout(inputValue, text) == [inputValue |-> inputValue, searchText |-> text]

\* SearchBar after an event set the input to inputValue and the App's search
\* text to text: where the text changed the sync effect sets the input to it;
\* where a dependency of the debounce effect changed, its cleanup clears the
\* timer of the last render and the effect sets a new one
Rendered(sb, before, inputValue, text) ==
    LET synced == IF text # before THEN text ELSE inputValue
        last == Timeout(sb.inputValue, before)
    IN  [inputValue |-> synced,
         timeouts |-> IF synced = sb.inputValue /\ text = before THEN sb.timeouts
                      ELSE clearTimeout(sb.timeouts, last) \cup {Timeout(synced, text)},
         changes |-> IF synced = sb.inputValue THEN sb.changes ELSE sb.changes + 1]

InitSearch ==
    /\ impl = "App"
    /\ excelData = handleFileLoad_dataset(FileNameAge.jsonData, FileNameAge.cols,
                                          FileNameAge.name)
    /\ modifiedCells = EmptyCells
    /\ filteredData = Null
    /\ searchText = S_empty
    /\ currentPage = 0
    /\ settings \in SettingsOptions
    /\ loading = FALSE
    /\ error = Null
    /\ pending = {}
    /\ out = NoOut
    /\ op = "load_done"
    /\ edited = EmptyCells
    /\ cleared = 0
    /\ loaded = [file |-> FileNameAge]
    /\ storage = Mirror(NoItems, excelData, modifiedCells)
    /\ cache = EmptyCache
    /\ now = 0
    /\ timers = [NoTimers EXCEPT !.searchBar =
                     [inputValue |-> searchText,
                      timeouts |-> {Timeout(searchText, searchText)},
                      changes |-> 0]]

SearchBarShown == impl = "App" /\ excelData # Null /\ timers.searchBar # Null

\* handleInputChange: the user changes the text of the input
InputChange(text) ==
    /\ SearchBarShown
    /\ text # timers.searchBar.inputValue
    /\ timers.searchBar.changes < MaxInputChanges
    /\ timers' = [timers EXCEPT !.searchBar = Rendered(@, searchText, text, searchText)]
    /\ out' = NoOut
    /\ op' = "input"
    /\ cleared' = 0
    /\ UNCHANGED <<impl, excelData, modifiedCells, filteredData, searchText, currentPage,
                   settings, loading, error, pending, edited, loaded, storage, cache, now>>

\* a pending debounce timer fires: its callback compares the values of the
\* render that set it
DebounceFires ==
    /\ SearchBarShown
    /\ \E timeout \in timers.searchBar.timeouts :
          LET fired == [timers.searchBar EXCEPT !.timeouts = @ \ {timeout}]
          IN  IF timeout.inputValue # timeout.searchText
              THEN /\ handleSearch(timeout.inputValue)
                   /\ out' = [kind |-> "search", text |-> timeout.inputValue]
                   /\ timers' = [timers EXCEPT !.searchBar =
                          Rendered(fired, searchText, fired.inputValue, timeout.inputValue)]
              ELSE /\ out' = NoOut
                   /\ cleared' = 0
                   /\ timers' = [timers EXCEPT !.searchBar = fired]
                   /\ UNCHANGED <<impl, excelData, modifiedCells, filteredData, searchText,
                                  currentPage, settings, loading, error, pending, edited,
                                  loaded, storage, cache, now>>
    /\ op' = "debounce"

\* handleSubmit: the user presses Enter in the input
Submit ==
    /\ SearchBarShown
    /\ handleSearch(timers.searchBar.inputValue)
    /\ timers' = [timers EXCEPT !.searchBar =
                     Rendered(@, searchText, @.inputValue, @.inputValue)]
    /\ out' = [kind |-> "search", text |-> timers.searchBar.inputValue]
    /\ op' = "submit"

\* handleClear: the X button, shown while the input is not empty
Clear ==
    /\ SearchBarShown
    /\ timers.searchBar.inputValue # S_empty
    /\ timers.searchBar.changes < MaxInputChanges
    /\ handleSearch(S_empty)
    /\ timers' = [timers EXCEPT !.searchBar = Rendered(@, searchText, S_empty, S_empty)]
    /\ out' = [kind |-> "search", text |-> S_empty]
    /\ op' = "clear"

NextSearch ==
    \/ \E text \in SearchTexts : InputChange(text)
    \/ DebounceFires
    \/ Submit
    \/ Clear

\* a timer that is set and not cleared fires
SpecSearch == InitSearch /\ [][NextSearch]_vars /\ WF_vars(DebounceFires)

(***************************************************************************)
(* Properties                                                              *)
(***************************************************************************)
\* the session under every search text and every page the status bar can reach
ViewsOf(s) ==
    IF s.excelData = Null THEN {s}
    ELSE {v \in {[s EXCEPT !.searchText = t, !.currentPage = p] :
                    t \in SearchTexts, p \in 0 .. Len(s.excelData.data)} :
            v.currentPage = 0 \/ v.currentPage < totalPages(v)}

\* the cells the grid renders: the dataset cell (0-based) shown, the ledger
\* key the grid looks up for it, and the value displayed
RenderedCells(s) ==
    LET rows == RenderedRows(s)
    IN  {[dsRow |-> rows[k].dsRow, col |-> c - 1,
          key |-> PositionKey(rows[k].cells[c].globalRowIndex, c - 1),
          value |-> rows[k].cells[c].value] :
            k \in DOMAIN rows, c \in DOMAIN s.excelData.headers}

\* the dataset cells <<row, col>> whose displayed value is the entry of key
DisplayedFrom(s, key) ==
    {<<x.dsRow, x.col>> : x \in {y \in RenderedCells(s) : y.key = key}}

\* the dataset cells <<row, col>> whose exported value is the entry of key
ExportedFrom(s, key) ==
    {rc \in {<<r - 1, c - 1>> : r \in DOMAIN s.excelData.data,
                                c \in DOMAIN s.excelData.headers} :
        RecordKey(At(At(s.excelData.data, rc[1]), 0), rc[2]) = key}

\* C1: in the App, every ledger entry made by a grid edit overrides, on
\* display under every search text and page and in the exported table, one
\* and the same dataset cell: the cell of the dataset row the user edited.
C1_EntryOverridesEditedCell ==
    (impl = "App" /\ excelData # Null) =>
        \A key \in DOMAIN modifiedCells :
            /\ key \in DOMAIN edited
            /\ ExportedFrom(Session, key) = {edited[key]}
            /\ \A v \in ViewsOf(Session) : DisplayedFrom(v, key) \subseteq {edited[key]}
            /\ \E v \in ViewsOf(Session) : DisplayedFrom(v, key) = {edited[key]}

\* C2: once an edit has set the entry of key to a value for a cell of the
\* dataset, that cell displays the value wherever it is shown (the App's grid
\* under every search text and page, the hook's filteredData) for as long as
\* the entry is in the ledger.
C2_GridDisplaysEditedValue ==
    excelData # Null =>
        \A key \in DOMAIN modifiedCells \cap DOMAIN edited :
            LET row == edited[key][1]
                col == edited[key][2]
            IN  (row < Len(excelData.data) /\ col < Len(excelData.headers)) =>
                    IF impl = "App"
                    THEN \A v \in ViewsOf(Session) :
                            \A x \in RenderedCells(v) :
                                (x.dsRow = row /\ x.col = col) =>
                                    x.value = modifiedCells[key]
                    ELSE At(At(filteredData.rows, row), col) = modifiedCells[key]

\* C3: a step changes the dataset (headers, rows or filename) only if it is
\* the completion of a successful load or a reset; edits, search, page and
\* settings changes and exports leave it as it was.
C3_DatasetChangesOnlyByLoadOrReset ==
    [][excelData' # excelData => op' \in {"load_done", "reset"}]_vars

\* C3, its case: an edit has just been recorded against a loaded dataset
C3_Witness ==
    /\ excelData # Null
    /\ op = "edit"
    /\ modifiedCells # EmptyCells

\* what a session exports: the table of App.handleExport, of
\* useExcelData.saveExcelFile
ExportedTable(s, type, readOk) ==
    IF s.impl = "App" THEN handleExport_table(s, type, readOk) ELSE saveExcelFile_table(s)

\* the rows of a table that have a cell other than ''
NonBlankRows(rows) ==
    SelectSeq(rows, LAMBDA row :
        \E c \in DOMAIN row : row[c] \notin {Text(S_empty), Orig(S_empty)})

\* a dataset cell as the exporter of the session writes it when no ledger
\* entry touches it
Unedited(s, type, readOk, cell) ==
    IF s.impl # "App" THEN TypedCell(cell)
    ELSE IF type \in {"save", "email"} /\ readOk THEN Orig(cell)
    ELSE Text(cell)

C5_RowsHaveHeaderLength ==
    excelData # Null =>
        \A r \in DOMAIN excelData.data : Len(excelData.data[r]) = Len(excelData.headers)

\* C5, its case: a load has completed on a file whose data rows differ in length
C5_Witness ==
    /\ op = "load_done"
    /\ loaded # Null
    /\ \E r1, r2 \in 2 .. Len(loaded.file.jsonData) :
            Len(loaded.file.jsonData[r1]) # Len(loaded.file.jsonData[r2])

\* the decoded array the dataset was loaded from
Decoded == loaded.file.jsonData

\* the longest of the header row and the data rows of the decoded array
DecodedWidth == Max({Len(Decoded[r]) : r \in DOMAIN Decoded})

\* the dataset is the decoded array normalized to width W: row 0 the headers,
\* every data row kept and padded with '', every missing header synthesized
NormalizedToMax ==
    /\ Len(excelData.headers) = DecodedWidth
    /\ \A i \in 1 .. DecodedWidth :
            excelData.headers[i] =
                IF i <= Len(Decoded[1]) THEN Decoded[1][i] ELSE S_Column_ \o NumToString(i)
    /\ Len(excelData.data) = Len(Decoded) - 1
    /\ \A r \in DOMAIN excelData.data :
            /\ Len(excelData.data[r]) = DecodedWidth
            /\ \A i \in 1 .. DecodedWidth :
                    excelData.data[r][i] =
                        IF i <= Len(Decoded[r + 1]) THEN Decoded[r + 1][i] ELSE S_empty
    /\ Decoded = FileNameAge.jsonData => excelData.data[2] = <<S_Bob, S_empty>>

FittedToRange ==
    LET W == loaded.file.cols
        fitted == [r \in 1 .. Len(Decoded) - 1 |->
                    [i \in 1 .. W |->
                        IF i <= Len(Decoded[r + 1]) THEN Decoded[r + 1][i] ELSE S_empty]]
        kept == {r \in DOMAIN fitted : \E i \in 1 .. W : fitted[r][i] # S_empty}
    IN  /\ Len(excelData.headers) = W
        /\ \A i \in 1 .. W :
                excelData.headers[i] =
                    IF i <= Len(Decoded[1]) THEN Decoded[1][i] ELSE S_empty
        /\ Len(excelData.data) = Cardinality(kept)
        /\ \A r \in kept :
                excelData.data[Cardinality({q \in kept : q <= r})] = fitted[r]

LoadCommitsNothing ==
    /\ excelData' = excelData
    /\ modifiedCells' = modifiedCells
    /\ searchText' = searchText
    /\ currentPage' = currentPage

\* C7 as stated: a load whose decoded array has no rows ends with a
\* {success: false, message} result carrying the empty-document message, with
\* the loading flag false, and neither its start nor its end changes dataset,
\* ledger, search text or page.
C7_EmptyDocumentResult ==
    [][/\ op' = "load_start" /\ (\E f \in pending' \ pending : Len(f.jsonData) = 0)
            => LoadCommitsNothing
       /\ op' = "load_empty" =>
            /\ LoadCommitsNothing
            /\ ~loading'
            /\ out'.kind = "result"
            /\ ~out'.success
            /\ out'.message = EmptyDocumentHook]_vars

\* C7, amended: such a load ends with the loading flag false and the error
\* set to the empty-document message, and changes neither dataset, ledger,
\* search text nor page; useExcelData.loadExcelFile returns {success: false,
\* message}, App.handleFileLoad returns nothing and reports through the error.
C7_EmptyDocumentReported ==
    [][/\ op' = "load_start" /\ (\E f \in pending' \ pending : Len(f.jsonData) = 0)
            => LoadCommitsNothing
       /\ op' = "load_empty" =>
            /\ LoadCommitsNothing
            /\ ~loading'
            /\ IF impl = "useExcelData"
               THEN /\ out' = [kind |-> "result", success |-> FALSE,
                               message |-> EmptyDocumentHook]
                    /\ error' = [message |-> EmptyDocumentHook]
               ELSE /\ out' = NoOut
                    /\ error' = [message |-> EmptyDocumentApp]]_vars

\* C7, its case: a load of an empty file has just failed in a session of
\* the hook that holds a dataset and edits
C7_Witness ==
    /\ impl = "useExcelData"
    /\ op = "load_empty"
    /\ excelData # Null
    /\ modifiedCells # EmptyCells

\* C8: right after a load has stored its dataset, and right after a reset,
\* the ledger has no entry.
C8_LedgerEmptyAfterLoadAndReset ==
    op \in {"load_done", "reset"} => DOMAIN modifiedCells = {}

\* C8, its case: a load has just replaced a dataset that had edits
C8_Witness ==
    /\ op = "load_done"
    /\ cleared > 0

\* a ledger without the entry of key
Without(cells, key) == [k \in DOMAIN cells \ {key} |-> cells[k]]

\* the entry of key resolves to a row of the dataset: the row whose column 0
\* is the record id of the key (App), the row at the index of the key (hook)
ResolvesToRow(s, key) ==
    IF s.impl = "App"
    THEN \E r \in DOMAIN s.excelData.data :
            String(s.excelData.data[r][1]) = At(split(key, "|"), 0)
    ELSE \E r \in DOMAIN s.excelData.data :
            NumToString(r - 1) = At(split(key, ","), 0)

\* the value useExcelData shows for a dataset cell under a ledger
ShownByPosition(s, cells, r, c) ==
    IF PositionKey(r - 1, c - 1) \in DOMAIN cells
    THEN cells[PositionKey(r - 1, c - 1)]
    ELSE s.excelData.data[r][c]

\* C9: a ledger entry that resolves to no row of the dataset changes nothing:
\* every export and every display (the grid under every search text and
\* page, filteredData) is what it is without the entry.
C9_UnresolvedEntryIsInert ==
    excelData # Null =>
        \A key \in DOMAIN modifiedCells :
            ~ResolvesToRow(Session, key) =>
                LET rest == [Session EXCEPT !.modifiedCells = Without(modifiedCells, key)]
                IN  /\ \A type \in ExportTypes, readOk \in BOOLEAN :
                        ExportedTable(Session, type, readOk) =
                            ExportedTable(rest, type, readOk)
                    /\ IF impl = "App"
                       THEN \A v \in ViewsOf(Session) :
                                RenderedCells(v) =
                                    RenderedCells([v EXCEPT !.modifiedCells =
                                                        rest.modifiedCells])
                       ELSE \A r \in DOMAIN excelData.data :
                                \A c \in DOMAIN excelData.data[r] :
                                    filteredData.rows[r][c] =
                                        ShownByPosition(Session, rest.modifiedCells, r, c)

\* C9, its case: an export has run with an entry in the ledger that resolves
\* to no row
C9_Witness ==
    /\ excelData # Null
    /\ op = "export"
    /\ out.kind = "export"
    /\ \E key \in DOMAIN modifiedCells : ~ResolvesToRow(Session, key)

\* the ledger entry that resolves to the dataset cell (r, c), 1-based, if any
EntryOf(s, r, c) ==
    IF s.impl = "App" THEN RecordKey(s.excelData.data[r][1], c - 1)
    ELSE PositionKey(r - 1, c - 1)

\* the effective value of the dataset cell (r, c)
EffectiveValue(s, r, c) ==
    IF EntryOf(s, r, c) \in DOMAIN s.modifiedCells
    THEN s.modifiedCells[EntryOf(s, r, c)]
    ELSE s.excelData.data[r][c]

\* the row of an exported table that holds the dataset row r.  A table with
\* more rows than the dataset has the rows of the worksheet, of which the
\* dataset holds the ones that are not completely empty, in order.
TableRowOf(s, table, r) ==
    IF Len(table.rows) = Len(s.excelData.data) THEN r
    ELSE LET sheet == Tail(s.excelData.formatting.worksheet)
             filled == {q \in DOMAIN sheet : NotCompletelyEmpty(sheet[q])}
         IN  CHOOSE q \in filled : Cardinality({x \in filled : x <= q}) = r

\* C10: every cell of a workbook that has just been exported is the
\* effective value of its dataset cell after type inference: '' for an empty
\* cell, a number for a numeric string, a boolean for 'true' or 'false' in
\* any case, else the trimmed string.  A cell of the original worksheet
\* written back as it was read keeps the type the file gave it.
C10_ExportIsTypeInferred ==
    (op = "export" /\ out.kind = "export" /\ out.type \in {"save", "email"}) =>
        \A r \in DOMAIN excelData.data : \A c \in DOMAIN excelData.headers :
            LET cell == out.table.rows[TableRowOf(Session, out.table, r)][c]
            IN  \/ cell = TypedCell(EffectiveValue(Session, r, c))
                \/ cell = Orig(EffectiveValue(Session, r, c))

\* the exports that write a workbook
WorkbookExports == {"save", "email"}

\* C11: with an empty ledger the exported workbook has the headers of the
\* dataset, as many rows and columns, and in every cell the type-inferred
\* form of the dataset value at the same position (a cell of the original
\* worksheet written back as it was read keeps the type the file gave it).
C11_EmptyLedgerRoundTrip ==
    (excelData # Null /\ modifiedCells = EmptyCells) =>
        \A type \in WorkbookExports, readOk \in BOOLEAN :
            LET table == ExportedTable(Session, type, readOk)
            IN  /\ table.headers = excelData.headers
                /\ Len(table.rows) = Len(excelData.data)
                /\ \A r \in DOMAIN table.rows :
                        /\ Len(table.rows[r]) = Len(excelData.data[r])
                        /\ \A c \in DOMAIN table.rows[r] :
                                table.rows[r][c] \in {TypedCell(excelData.data[r][c]),
                                                     Orig(excelData.data[r][c])}

\* an export step leaves dataset and ledger as they were
ExportKeepsSession ==
    /\ excelData' = excelData
    /\ modifiedCells' = modifiedCells

\* C12: an export or save, whether it succeeds or fails, leaves dataset and
\* ledger unchanged; invoked with no dataset it returns a failure result and
\* changes nothing else.
C12_ExportKeepsSessionAndReportsNoData ==
    [][op' \in {"export", "export_nodata"} =>
        /\ ExportKeepsSession
        /\ excelData = Null =>
            /\ out'.kind = "result"
            /\ ~out'.success
            /\ UNCHANGED <<filteredData, searchText, currentPage, settings, loading,
                           error, pending>>]_vars

\* the letters of a and b are the same up to letter case
SameIgnoringCase(a, b) ==
    /\ Len(a) = Len(b)
    /\ \A i \in DOMAIN a :
            \/ a[i] = b[i]
            \/ \E j \in DOMAIN UpperChars : {a[i], b[i]} = {UpperChars[j], LowerChars[j]}

\* text occurs in the value of column c of the row, ignoring letter case; a
\* row without the column has the empty value there
OccursIn(row, c, text) ==
    LET value == IF c + 1 \in DOMAIN row /\ row[c + 1] # Undefined THEN row[c + 1] ELSE S_empty
    IN  \E from \in 1 .. Len(value) + 1 :
            /\ from + Len(text) - 1 <= Len(value)
            /\ SameIgnoringCase(SubSeq(value, from, from + Len(text) - 1), text)

\* the dataset rows (0-based) of the filtered view
FilteredRows == {filteredIdx(Session)[k] : k \in DOMAIN filteredIdx(Session)}

\* C13: with non-empty search text a dataset row is in the filtered view
\* exactly if it is row 0 or the text occurs, ignoring letter case, in its
\* column 0 or column 1 value (a match in another column retains nothing);
\* with empty search text every row is retained.
C13_FilterRetainsByFirstTwoColumns ==
    excelData # Null =>
        \A i \in 0 .. Len(excelData.data) - 1 :
            i \in FilteredRows <=>
                \/ searchText = S_empty
                \/ i = 0
                \/ OccursIn(At(excelData.data, i), 0, searchText)
                \/ OccursIn(At(excelData.data, i), 1, searchText)

\* a search has left out a row that has the text in its third column only,
\* and kept a row that has it, in another letter case, in column 0 or 1
C13_Witness ==
    /\ op = "search"
    /\ searchText # S_empty
    /\ \E i \in 1 .. Len(excelData.data) - 1 :
            /\ i \notin FilteredRows
            /\ OccursIn(At(excelData.data, i), 2, searchText)
    /\ \E i \in 1 .. Len(excelData.data) - 1 :
            /\ i \in FilteredRows
            /\ ~includes(At(excelData.data, i)[1] \o At(excelData.data, i)[2], searchText)

\* the elements of a at the places in kept, in the order of a
InOrder(a, kept) ==
    [k \in 1 .. Cardinality(kept) |->
        a[CHOOSE x \in kept : Cardinality({y \in kept : y < x}) = k - 1]]

\* what the projector reads
ProjectorInputs == <<excelData, modifiedCells, searchText, currentPage, settings>>

\* C14: the view projector is a pure read path.  A step that only changes
\* the view (search, paging) leaves dataset and ledger unchanged; a step that
\* keeps dataset, ledger, search text, page and settings leaves the displayed
\* window and the grid's table identical; and the rows of the window are a
\* subsequence of the dataset rows, in dataset order.
C14_ProjectorIsPureRead ==
    [][/\ op' \in {"search", "page"} =>
            /\ excelData' = excelData
            /\ modifiedCells' = modifiedCells
       /\ ProjectorInputs' = ProjectorInputs =>
            /\ displayData(Session)' = displayData(Session)
            /\ tableData(Session)' = tableData(Session)
       /\ excelData' # Null =>
            \E kept \in SUBSET DOMAIN excelData'.data :
                displayData(Session)' = InOrder(excelData'.data, kept)]_vars

\* a search or a page turn has left a window that is not the whole dataset:
\* it leaves out a row between two that it shows, or starts after row 0
C14_Witness ==
    /\ op \in {"search", "page"}
    /\ displayIdx(Session) # << >>
    /\ \/ \E k \in 1 .. Len(displayIdx(Session)) - 1 :
                displayIdx(Session)[k + 1] > displayIdx(Session)[k] + 1
       \/ displayIdx(Session)[1] > 0

\* C15: whenever the loaded dataset has a row, the grid renders dataset row 0
\* as the pinned row (first, numbered 1), on every page and under every
\* search text, and renders it exactly once.
C15_PinnedRowRenderedOnce ==
    (impl = "App" /\ excelData # Null /\ Len(excelData.data) > 0) =>
        LET rows == RenderedRows(Session)
        IN  /\ rows # << >>
            /\ rows[1].dsRow = 0
            /\ rows[1].actualRowNumber = 1
            /\ rows[1].cells = stickyRow1(Session)
            /\ Cardinality({k \in DOMAIN rows : rows[k].dsRow = 0}) = 1

\* the grid is on a later page, or under a search text that row 0 does not
\* match while another row does
C15_Witness ==
    /\ impl = "App"
    /\ excelData # Null
    /\ Len(RenderedRows(Session)) > 1
    /\ \/ op = "page" /\ currentPage > 0
       \/ /\ op = "search"
          /\ searchText # S_empty
          /\ ~ColumnMatches(At(excelData.data, 0), 0, searchText)
          /\ ~ColumnMatches(At(excelData.data, 0), 1, searchText)

\* (accessCount, timestamp) of a is at most that of b, lexicographically
PairAtMost(a, b) ==
    \/ a.accessCount < b.accessCount
    \/ a.accessCount = b.accessCount /\ a.timestamp <= b.timestamp

\* the entries of a namespace, as a set
EntriesOf(cacheMap) == {cacheMap[i] : i \in DOMAIN cacheMap}

\* C16: after every set the namespace holds at most MAX_CACHE_SIZE entries:
\* of the N unexpired entries the set leaves, none is evicted when N is at
\* most the limit, and otherwise exactly N - MAX_CACHE_SIZE are, each with an
\* (accessCount, timestamp) pair no greater than that of every retained one.
C16_SetLimitsNamespace ==
    [][op' = "cache_set" =>
        LET type == out'.type
            written == [key |-> out'.key, timestamp |-> now, accessCount |-> 1]
            before == {e \in EntriesOf(cache[type]) : e.key # out'.key}
            unexpired == {[key |-> e.key, timestamp |-> e.timestamp,
                           accessCount |-> e.accessCount] :
                             e \in {e \in before : now - e.timestamp <= CACHE_EXPIRY_MS}}
                         \cup {written}
            retained == {[key |-> e.key, timestamp |-> e.timestamp,
                          accessCount |-> e.accessCount] : e \in EntriesOf(cache'[type])}
            evicted == unexpired \ retained
            N == Cardinality(unexpired)
        IN  /\ Len(cache'[type]) <= MAX_CACHE_SIZE
            /\ Cardinality(retained) = Len(cache'[type])
            /\ retained \subseteq unexpired
            /\ N <= MAX_CACHE_SIZE => evicted = {}
            /\ N > MAX_CACHE_SIZE =>
                    /\ Cardinality(evicted) = N - MAX_CACHE_SIZE
                    /\ \A e \in evicted, r \in retained : PairAtMost(e, r)
            /\ \A other \in CacheTypes \ {type} : cache'[other] = cache[other]]_vars

\* the set of a key beyond the limit into a full namespace has evicted one
\* entry, and the entries kept differ in accessCount or timestamp
C16_Witness ==
    /\ op = "cache_set"
    /\ out.key > MAX_CACHE_SIZE
    /\ Len(cache[out.type]) = MAX_CACHE_SIZE
    /\ ~MapHas(cache[out.type], 1)
    /\ \E e \in EntriesOf(cache[out.type]) : e.accessCount > 1 \/ e.timestamp > 0

\* C17: a get of an entry set more than CACHE_EXPIRY_MS ago returns nothing
\* and deletes the entry, however often it was read before; a get of an entry
\* set at most CACHE_EXPIRY_MS ago returns its data and leaves its timestamp
\* alone; and only a set of its key gives an entry its timestamp, the time of
\* the set.
C17_GetHonoursExpiry ==
    [][/\ op' = "cache_get" =>
            LET cacheMap == cache[out'.type]
                key == out'.key
            IN  IF ~MapHas(cacheMap, key)
                THEN out'.data = Null /\ cache' = cache
                ELSE IF now - MapGet(cacheMap, key).timestamp > CACHE_EXPIRY_MS
                THEN /\ out'.data = Null
                     /\ ~MapHas(cache'[out'.type], key)
                ELSE /\ out'.data = MapGet(cacheMap, key).data
                     /\ MapHas(cache'[out'.type], key)
                     /\ MapGet(cache'[out'.type], key).accessCount =
                            MapGet(cacheMap, key).accessCount + 1
       /\ \A type \in CacheTypes : \A e \in EntriesOf(cache'[type]) :
            IF op' = "cache_set" /\ out'.type = type /\ out'.key = e.key
            THEN e.timestamp = now /\ e.accessCount = 1
            ELSE /\ MapHas(cache[type], e.key)
                 /\ MapGet(cache[type], e.key).timestamp = e.timestamp
                 /\ MapGet(cache[type], e.key).data = e.data]_vars

\* a get has found an entry that was read before and has expired since its
\* set, and returned nothing
C17_Witness ==
    /\ op = "cache_get"
    /\ out.data = Null
    /\ out.found # Null
    /\ out.found.accessCount > 1
    /\ now - out.found.timestamp > CACHE_EXPIRY_MS

\* C18: once the App has reacted to a change, a non-empty ledger is stored as
\* it is in memory, an empty ledger has no item in the store (an empty map is
\* never stored), and a loaded dataset is stored with the headers, rows and
\* filename it has in memory.
C18_MirrorFollowsSession ==
    (impl = "App" /\ Mounted) =>
        /\ IF modifiedCells # EmptyCells
           THEN /\ storage.mods # Null
                /\ IsJson(storage.mods)
                /\ JSON_parse(storage.mods) = modifiedCells
           ELSE storage.mods = Null
        /\ excelData # Null =>
                /\ storage.data # Null
                /\ IsJson(storage.data)
                /\ JSON_parse(storage.data).headers = excelData.headers
                /\ JSON_parse(storage.data).data = excelData.data
                /\ JSON_parse(storage.data).filename = excelData.filename

\* an edit has been made and mirrored: ledger and dataset are in the store
C18_Witness ==
    /\ impl = "App"
    /\ op = "edit"
    /\ excelData # Null
    /\ storage.data = JSON_stringify_dataset(excelData)
    /\ modifiedCells # EmptyCells
    /\ storage.mods = JSON_stringify_cells(modifiedCells)

\* C19: a persistence write that fails, in the mirror effects or in the
\* periodic snapshot, is caught: the step ends without an exception and with
\* the dataset, and for the snapshot the ledger, that were in memory.
C19_WriteFailureIsCaught ==
    [][op' \in {"crashed", "autosave_failed"} =>
        /\ out' # Thrown
        /\ excelData # Null => excelData' = excelData
        /\ op' = "autosave_failed" => modifiedCells' = modifiedCells]_vars

\* C20: when the App starts over an item that cannot be parsed, startup does
\* not fail, the session starts without dataset and with an empty ledger, and
\* the items of dataset and ledger are deleted.
C20_CorruptStateStartsEmpty ==
    [][(~Mounted /\ op' \in {"start", "crashed"}
            /\ (storage.data = Corrupt \/ storage.mods = Corrupt)) =>
        /\ op' = "start"
        /\ excelData' = Null
        /\ modifiedCells' = EmptyCells
        /\ storage'.data = Null
        /\ storage'.mods = Null]_vars

\* C21: the interval of the periodic snapshot runs independently of cell
\* edits: whenever the ledger has been non-empty for longer than
\* autoSaveInterval minutes, with the setting unchanged and the hook mounted,
\* a snapshot was written within the last autoSaveInterval minutes, however
\* often cells were edited in between.
C21_SnapshotWithinInterval ==
    (/\ timers.autosave # Null
     /\ modifiedCells # EmptyCells
     /\ now - timers.autosave.since > intervalMs(settings.autoSaveInterval))
    => /\ storage.autosave # Null
       /\ JSON_parse(storage.autosave).timestamp
              >= now - intervalMs(settings.autoSaveInterval)

\* the headers, the rows and the filename of a dataset
DatasetContent(ed) ==
    IF ed = Null THEN Null
    ELSE [headers |-> ed.headers, data |-> ed.data, filename |-> ed.filename]

\* C22: reloading the page with a dataset in memory restores a dataset
\* (headers, rows, filename) and a ledger equal to those in memory before the
\* reload, and after the startup effects the persisted copies equal them too.
C22_ReloadRoundTrip ==
    (op = "reload" /\ out.excelData.v # Null)
    => /\ DatasetContent(excelData) = DatasetContent(out.excelData.v)
       /\ modifiedCells = out.modifiedCells
       /\ storage.data # Null /\ IsJson(storage.data)
       /\ DatasetContent(JSON_parse(storage.data)) = DatasetContent(out.excelData.v)
       /\ IF out.modifiedCells = EmptyCells THEN storage.mods = Null
          ELSE /\ storage.mods # Null /\ IsJson(storage.mods)
               /\ JSON_parse(storage.mods) = out.modifiedCells

\* C22 happens: a page with a loaded file and edited cells was reloaded
C22_Witness ==
    /\ op = "reload"
    /\ loaded # Null
    /\ out.excelData.v # Null
    /\ out.excelData.v.filename = loaded.file.name
    /\ out.modifiedCells # EmptyCells
    /\ modifiedCells = out.modifiedCells

\* C23: overlapping loads are neither rejected nor cancelled.  A load that
\* starts adds itself to the loads in flight and changes neither the dataset
\* nor the ledger; a load leaves the loads in flight only by resolving; and a
\* load that resolves with rows replaces the dataset by its own and empties
\* the ledger, whichever loads are still in flight, so the dataset is that of
\* the load that resolved last.
C23_OverlappingLoadsAllResolve ==
    [][/\ op' = "load_start"
          => /\ pending \subseteq pending' /\ pending' # pending
             /\ excelData' = excelData /\ modifiedCells' = modifiedCells
       /\ pending' # pending /\ ~(pending \subseteq pending')
          => op' \in {"load_done", "load_empty"}
       /\ op' = "load_done"
          => /\ loaded'.file \in pending
             /\ pending' = pending \ {loaded'.file}
             /\ modifiedCells' = EmptyCells
             /\ DatasetContent(excelData')
                  = DatasetContent(loadExcelFile_dataset(loaded'.file.jsonData,
                                                          loaded'.file.name))]_vars

\* C23 happens: a load resolved while another was still in flight, and
\* replaced a session that had been loaded and edited in between
C23_Witness ==
    /\ op = "load_done"
    /\ pending # {}
    /\ cleared > 0
    /\ excelData = loadExcelFile_dataset(loaded.file.jsonData, loaded.file.name)

\* C30: the loading flag is true exactly while a load or a save is in
\* flight: true in every state with an operation in flight, also when two
\* overlap, and false once none is in flight.  (saveExcelFile has no await:
\* it is never in flight between two steps.)
C30_LoadingWhileInFlight == loading <=> pending # {}

C25_FailedSaveKeepsSession ==
    (op = "reset" /\ out.kind = "export_failed")
    => /\ excelData # Null
       /\ modifiedCells # EmptyCells
       /\ storage.data # Null
       /\ storage.mods # Null

\* the session with no edit recorded
WithoutEdits(s) == [s EXCEPT !.modifiedCells = EmptyCells]

\* the dataset rows (0-based) no edit of the user was made in
UntouchedRows ==
    {r \in Idx0(excelData.data) : \A key \in DOMAIN edited : edited[key][1] # r}

\* C26: in the App, an edit of a cell of one dataset row changes neither the
\* displayed nor the exported value of a cell of another row: every row the
\* user has not edited is displayed and exported as it is without any edit,
\* also when rows share their value in column 0.
C26_EditsStayInTheirRow ==
    (impl = "App" /\ excelData # Null) =>
        \A r \in UntouchedRows :
            /\ \A x \in RenderedCells(Session) :
                  x.dsRow = r =>
                      \E y \in RenderedCells(WithoutEdits(Session)) :
                          y.dsRow = r /\ y.col = x.col /\ y.value = x.value
            /\ handleExport_table(Session, "pdf", TRUE).rows[r + 1]
                  = handleExport_table(WithoutEdits(Session), "pdf", TRUE).rows[r + 1]

\* the worksheet row (row 0 the header row) from which the loader took the
\* dataset row i (0-based): the rows that are not completely empty, in order
LoadedFrom(ed, i) ==
    LET sheet == ed.formatting.worksheet
        filled == {q \in 1 .. (Len(sheet) - 1) : NotCompletelyEmpty(At(sheet, q))}
    IN  CHOOSE q \in filled : Cardinality({x \in filled : x <= q}) = i + 1

\* C27: in a save that reuses the original workbook, the override of a ledger
\* entry that resolves to dataset row i is written into the worksheet row
\* from which dataset row i was loaded, also when the loader dropped
\* completely empty rows before it.
C27_OverrideWrittenToSourceRow ==
    (impl = "App" /\ excelData # Null) =>
        \A key \in DOMAIN modifiedCells :
            LET target == WorkbookTarget(excelData, key)
            IN  target.hit => target.r = LoadedFrom(excelData, target.r - 1)

\* the rows the filter keeps
filteredCount == Len(filteredIdx(Session))

\* C28: with a dataset loaded, after any sequence of load, restore, search,
\* settings change, page navigation and edit, totalPages is the least number
\* of pages of rowsPerPage rows that hold the filtered rows, the current page
\* is not negative and is below totalPages when there are pages, and the
\* window displayed is not empty while the filter keeps a row.
C28_PageInRange ==
    (impl = "App" /\ excelData # Null) =>
        /\ totalPages(Session) * settings.rowsPerPage >= filteredCount
        /\ totalPages(Session) >= 0
        /\ totalPages(Session) > 0
              => (totalPages(Session) - 1) * settings.rowsPerPage < filteredCount
        /\ currentPage >= 0
        /\ totalPages(Session) > 0 => currentPage < totalPages(Session)
        /\ filteredCount > 0 => Len(displayIdx(Session)) > 0

\* C28 happens: a search was applied from a later page of a restored session
\* and left fewer pages than there were
C28_Witness ==
    /\ impl = "App" /\ excelData # Null
    /\ op = "search"
    /\ loaded = Null
    /\ searchText # S_empty
    /\ totalPages(Session) = 1
    /\ totalPages([Session EXCEPT !.searchText = S_empty]) > 1

\* C29: right after setCacheEntry(type, key, data), with no time elapsed,
\* the key is in the namespace with the data just set, so that a get returns
\* it: a set never evicts the entry it has just written, whatever the access
\* counts of the entries stored before.
C29_SetKeepsItsEntry ==
    op = "cache_set" =>
        /\ MapHas(cache[out.type], out.key)
        /\ MapGet(cache[out.type], out.key).data = out.data

====
